---------------------------- MODULE Spec2Model ----------------------------
(***************************************************************************)
(* HAP-MCP (src/src/index.ts): createServer registers 32 tools on an MCP   *)
(* server.  Every tool handler reads the server configuration, checks the  *)
(* two credentials, builds a URL, awaits one fetch, awaits response.json() *)
(* and returns { content: [{ type: "text", text }] }.                      *)
(*                                                                         *)
(* JavaScript strings are TLA+ strings, read character by character with   *)
(* SubSeq; JavaScript values are tagged records [t, v].                    *)
(***************************************************************************)
EXTENDS Integers, Sequences, FiniteSets, TLC

(***************************************************************************)
(* JavaScript values                                                       *)
(***************************************************************************)
Undefined == [t |-> "undefined", v |-> ""]
Null      == [t |-> "null", v |-> ""]
Str(s)    == [t |-> "string", v |-> s]
Num(n)    == [t |-> "number", v |-> n]
Bool(b)   == [t |-> "boolean", v |-> b]
Arr(xs)   == [t |-> "array", v |-> xs]
\* an object is its own properties in insertion order: << <<key, value>>, ... >>
Obj(ps)   == [t |-> "object", v |-> ps]
\* an Error instance; v is its message property
Err(m)    == [t |-> "error", v |-> m]

Char(s, i) == SubSeq(s, i, i)

Digits == <<"0", "1", "2", "3", "4", "5", "6", "7", "8", "9">>

IsDigit(c) == \E d \in 1..10 : Digits[d] = c

DigitValue(c) == (CHOOSE d \in 1..10 : Digits[d] = c) - 1

RECURSIVE NatToString(_)
NatToString(n) ==
    IF n < 10 THEN Digits[n + 1]
    ELSE NatToString(n \div 10) \o Digits[(n % 10) + 1]

\* Number.prototype.toString for an integer
NumberToString(n) == IF n < 0 THEN "-" \o NatToString(0 - n) ELSE NatToString(n)

\* obj[key]: the value of an own property, undefined when there is none
\* (and for a primitive, whose wrapper has no such property)
GetProp(val, key) ==
    IF val.t = "object" /\ \E i \in 1..Len(val.v) : val.v[i][1] = key
    THEN val.v[CHOOSE i \in 1..Len(val.v) : val.v[i][1] = key][2]
    ELSE IF val.t = "error" /\ key = "message" THEN Str(val.v)
    ELSE Undefined

HasProp(val, key) ==
    val.t = "object" /\ \E i \in 1..Len(val.v) : val.v[i][1] = key

\* obj[key] = x on an object: replaces in place, else appends
SetProp(ps, key, x) ==
    IF \E i \in 1..Len(ps) : ps[i][1] = key
    THEN [i \in 1..Len(ps) |-> IF ps[i][1] = key THEN <<key, x>> ELSE ps[i]]
    ELSE Append(ps, <<key, x>>)

\* ToBoolean
Truthy(val) ==
    CASE val.t = "undefined" -> FALSE
      [] val.t = "null"      -> FALSE
      [] val.t = "boolean"   -> val.v
      [] val.t = "number"    -> val.v # 0
      [] val.t = "string"    -> val.v # ""
      [] OTHER               -> TRUE

\* String(value), for the values a template literal or String() meets here
RECURSIVE String(_), JoinElements(_, _)
String(val) ==
    CASE val.t = "undefined" -> "undefined"
      [] val.t = "null"      -> "null"
      [] val.t = "boolean"   -> (IF val.v THEN "true" ELSE "false")
      [] val.t = "number"    -> NumberToString(val.v)
      [] val.t = "string"    -> val.v
      [] val.t = "error"     -> "Error: " \o val.v
      [] val.t = "array"     -> JoinElements(val.v, 1)
      [] OTHER               -> "[object Object]"

\* Array.prototype.join(","), which String(array) is: null and undefined
\* elements give the empty string
JoinElements(xs, i) ==
    IF i > Len(xs) THEN ""
    ELSE (IF i > 1 THEN "," ELSE "")
         \o (IF xs[i].t \in {"null", "undefined"} THEN "" ELSE String(xs[i]))
         \o JoinElements(xs, i + 1)

(***************************************************************************)
(* JSON.stringify                                                          *)
(***************************************************************************)
RECURSIVE QuoteChars(_, _)
QuoteChars(s, i) ==
    IF i > Len(s) THEN ""
    ELSE LET c == Char(s, i)
         IN  (IF c = "\"" THEN "\\\"" ELSE IF c = "\\" THEN "\\\\" ELSE c)
             \o QuoteChars(s, i + 1)

\* QuoteJSONString
Quote(s) == "\"" \o QuoteChars(s, 1) \o "\""

RECURSIVE JSONstringify(_)
RECURSIVE StringifyElements(_, _)
RECURSIVE StringifyMembers(_, _, _)

\* array elements: undefined is written as null
StringifyElements(xs, i) ==
    IF i > Len(xs) THEN ""
    ELSE (IF i > 1 THEN "," ELSE "")
         \o (IF xs[i].t = "undefined" THEN "null" ELSE JSONstringify(xs[i]))
         \o StringifyElements(xs, i + 1)

\* object members: a property whose value is undefined is left out
StringifyMembers(ps, i, first) ==
    IF i > Len(ps) THEN ""
    ELSE IF ps[i][2].t = "undefined" THEN StringifyMembers(ps, i + 1, first)
    ELSE (IF first THEN "" ELSE ",")
         \o Quote(ps[i][1]) \o ":" \o JSONstringify(ps[i][2])
         \o StringifyMembers(ps, i + 1, FALSE)

JSONstringify(val) ==
    CASE val.t = "null"      -> "null"
      [] val.t = "boolean"   -> (IF val.v THEN "true" ELSE "false")
      [] val.t = "number"    -> NumberToString(val.v)
      [] val.t = "string"    -> Quote(val.v)
      [] val.t = "array"     -> "[" \o StringifyElements(val.v, 1) \o "]"
      [] val.t = "object"    -> "{" \o StringifyMembers(val.v, 1, TRUE) \o "}"
      [] val.t = "error"     -> "{}"
      [] OTHER               -> "undefined"

(***************************************************************************)
(* JSON.parse: whitespace, true/false/null, integers, strings with the     *)
(* escapes \" and \\, arrays, objects.                                     *)
(***************************************************************************)
ParseFail == [ok |-> FALSE, val |-> Undefined, next |-> 0]

ParseOk(val, next) == [ok |-> TRUE, val |-> val, next |-> next]

RECURSIVE SkipWs(_, _)
SkipWs(s, i) ==
    IF i <= Len(s) /\ Char(s, i) \in {" ", "\n", "\t", "\r"} THEN SkipWs(s, i + 1) ELSE i

StartsWithAt(s, i, lit) ==
    i + Len(lit) - 1 <= Len(s) /\ SubSeq(s, i, i + Len(lit) - 1) = lit

\* the characters of a string literal from i (after the opening quote)
RECURSIVE ParseStringTail(_, _, _)
ParseStringTail(s, i, acc) ==
    IF i > Len(s) THEN ParseFail
    ELSE LET c == Char(s, i)
         IN  IF c = "\"" THEN ParseOk(Str(acc), i + 1)
             ELSE IF c = "\\"
             THEN IF i + 1 <= Len(s) /\ Char(s, i + 1) \in {"\"", "\\"}
                  THEN ParseStringTail(s, i + 2, acc \o Char(s, i + 1))
                  ELSE ParseFail
             ELSE IF c \in {"\n", "\t", "\r"} THEN ParseFail
             ELSE ParseStringTail(s, i + 1, acc \o c)

RECURSIVE ParseDigits(_, _, _)
ParseDigits(s, i, acc) ==
    IF i <= Len(s) /\ IsDigit(Char(s, i))
    THEN ParseDigits(s, i + 1, acc * 10 + DigitValue(Char(s, i)))
    ELSE ParseOk(Num(acc), i)

ParseNumber(s, i) ==
    IF Char(s, i) = "-"
    THEN IF i + 1 <= Len(s) /\ IsDigit(Char(s, i + 1))
         THEN LET r == ParseDigits(s, i + 1, 0) IN ParseOk(Num(0 - r.val.v), r.next)
         ELSE ParseFail
    ELSE IF Char(s, i) = "0" /\ i + 1 <= Len(s) /\ IsDigit(Char(s, i + 1))
    THEN ParseFail
    ELSE ParseDigits(s, i, 0)

RECURSIVE ParseValue(_, _)
RECURSIVE ParseElements(_, _, _)
RECURSIVE ParseMembers(_, _, _)

\* after "[" or ",": the next element
ParseElements(s, i, acc) ==
    LET r == ParseValue(s, i)
        j == SkipWs(s, r.next)
    IN  IF ~r.ok \/ j > Len(s) THEN ParseFail
        ELSE IF Char(s, j) = "," THEN ParseElements(s, j + 1, Append(acc, r.val))
        ELSE IF Char(s, j) = "]" THEN ParseOk(Arr(Append(acc, r.val)), j + 1)
        ELSE ParseFail

\* after "{" or ",": the next member; a repeated key keeps its place and takes
\* the last value
ParseMembers(s, i, acc) ==
    LET k == SkipWs(s, i)
    IN  IF k > Len(s) \/ Char(s, k) # "\"" THEN ParseFail
        ELSE LET key == ParseStringTail(s, k + 1, "")
                 c   == SkipWs(s, key.next)
             IN  IF ~key.ok \/ c > Len(s) \/ Char(s, c) # ":" THEN ParseFail
                 ELSE LET r == ParseValue(s, c + 1)
                          j == SkipWs(s, r.next)
                      IN  IF ~r.ok \/ j > Len(s) THEN ParseFail
                          ELSE IF Char(s, j) = ","
                          THEN ParseMembers(s, j + 1, SetProp(acc, key.val.v, r.val))
                          ELSE IF Char(s, j) = "}"
                          THEN ParseOk(Obj(SetProp(acc, key.val.v, r.val)), j + 1)
                          ELSE ParseFail

ParseValue(s, i) ==
    LET j == SkipWs(s, i)
        c == Char(s, j)
    IN  IF j > Len(s) THEN ParseFail
        ELSE IF c = "{"
        THEN LET k == SkipWs(s, j + 1)
             IN  IF k <= Len(s) /\ Char(s, k) = "}" THEN ParseOk(Obj(<<>>), k + 1)
                 ELSE ParseMembers(s, j + 1, <<>>)
        ELSE IF c = "["
        THEN LET k == SkipWs(s, j + 1)
             IN  IF k <= Len(s) /\ Char(s, k) = "]" THEN ParseOk(Arr(<<>>), k + 1)
                 ELSE ParseElements(s, j + 1, <<>>)
        ELSE IF c = "\"" THEN ParseStringTail(s, j + 1, "")
        ELSE IF c = "-" \/ IsDigit(c) THEN ParseNumber(s, j)
        ELSE IF StartsWithAt(s, j, "true") THEN ParseOk(Bool(TRUE), j + 4)
        ELSE IF StartsWithAt(s, j, "false") THEN ParseOk(Bool(FALSE), j + 5)
        ELSE IF StartsWithAt(s, j, "null") THEN ParseOk(Null, j + 4)
        ELSE ParseFail

\* JSON.parse(text): [ok, val]; ~ok is a thrown SyntaxError
JSONparse(s) ==
    LET r == ParseValue(s, 1)
    IN  IF r.ok /\ SkipWs(s, r.next) > Len(s)
        THEN [ok |-> TRUE, val |-> r.val]
        ELSE [ok |-> FALSE, val |-> Undefined]

(***************************************************************************)
(* Strings                                                                 *)
(***************************************************************************)
\* the first index >= i of a character of cs, Len(s) + 1 when there is none
RECURSIVE FindChar(_, _, _)
FindChar(s, cs, i) ==
    IF i > Len(s) \/ Char(s, i) \in cs THEN i ELSE FindChar(s, cs, i + 1)

\* String.prototype.split on any character of cs
RECURSIVE Split(_, _)
Split(s, cs) ==
    LET j == FindChar(s, cs, 1)
    IN  IF j > Len(s) THEN <<s>>
        ELSE <<SubSeq(s, 1, j - 1)>> \o Split(SubSeq(s, j + 1, Len(s)), cs)

RECURSIVE Join(_, _)
Join(xs, sep) ==
    IF xs = <<>> THEN ""
    ELSE IF Len(xs) = 1 THEN xs[1]
    ELSE xs[1] \o sep \o Join(Tail(xs), sep)

StartsWith(s, prefix) == StartsWithAt(s, 1, prefix)

\* String.prototype.includes
RECURSIVE IncludesFrom(_, _, _)
IncludesFrom(s, sub, i) ==
    IF i + Len(sub) - 1 > Len(s) THEN FALSE
    ELSE StartsWithAt(s, i, sub) \/ IncludesFrom(s, sub, i + 1)

Includes(s, sub) == IncludesFrom(s, sub, 1)

Letters ==
    {"a", "b", "c", "d", "e", "f", "g", "h", "i", "j", "k", "l", "m", "n", "o", "p",
     "q", "r", "s", "t", "u", "v", "w", "x", "y", "z", "A", "B", "C", "D", "E", "F",
     "G", "H", "I", "J", "K", "L", "M", "N", "O", "P", "Q", "R", "S", "T", "U", "V",
     "W", "X", "Y", "Z"}

(***************************************************************************)
(* Percent-encoding (the ASCII punctuation; letters, digits and the        *)
(* characters * - . _ are never encoded)                                   *)
(***************************************************************************)
PercentTable ==
    << <<" ", "20">>, <<"!", "21">>, <<"\"", "22">>, <<"#", "23">>, <<"$", "24">>,
       <<"%", "25">>, <<"&", "26">>, <<"'", "27">>, <<"(", "28">>, <<")", "29">>,
       <<"+", "2B">>, <<",", "2C">>, <<"/", "2F">>, <<":", "3A">>, <<";", "3B">>,
       <<"<", "3C">>, <<"=", "3D">>, <<">", "3E">>, <<"?", "3F">>, <<"@", "40">>,
       <<"[", "5B">>, <<"\\", "5C">>, <<"]", "5D">>, <<"^", "5E">>,
       <<"{", "7B">>, <<"|", "7C">>, <<"}", "7D">>, <<"~", "7E">> >>

PercentCode(c) ==
    IF \E k \in 1..Len(PercentTable) : PercentTable[k][1] = c
    THEN "%" \o PercentTable[CHOOSE k \in 1..Len(PercentTable) : PercentTable[k][1] = c][2]
    ELSE c

\* percent-encode the characters of s that are in cs
RECURSIVE PercentEncode(_, _, _)
PercentEncode(s, cs, i) ==
    IF i > Len(s) THEN ""
    ELSE (IF Char(s, i) \in cs THEN PercentCode(Char(s, i)) ELSE Char(s, i))
         \o PercentEncode(s, cs, i + 1)

\* percent-decode: %XX of the table becomes its character
RECURSIVE PercentDecode(_, _)
PercentDecode(s, i) ==
    IF i > Len(s) THEN ""
    ELSE IF Char(s, i) = "%" /\ i + 2 <= Len(s)
            /\ \E k \in 1..Len(PercentTable) : PercentTable[k][2] = SubSeq(s, i + 1, i + 2)
    THEN PercentTable[CHOOSE k \in 1..Len(PercentTable) :
                          PercentTable[k][2] = SubSeq(s, i + 1, i + 2)][1]
         \o PercentDecode(s, i + 3)
    ELSE Char(s, i) \o PercentDecode(s, i + 1)

PathPercentEncodeSet == {" ", "\"", "<", ">", "{", "}"}

\* the query percent-encode set of a special scheme
QueryPercentEncodeSet == {" ", "\"", "<", ">", "'"}

FragmentPercentEncodeSet == {" ", "\"", "<", ">"}

(***************************************************************************)
(* application/x-www-form-urlencoded (URLSearchParams)                     *)
(***************************************************************************)
RECURSIVE FormEncode(_, _)
FormEncode(s, i) ==
    IF i > Len(s) THEN ""
    ELSE (IF Char(s, i) = " " THEN "+" ELSE PercentCode(Char(s, i)))
         \o FormEncode(s, i + 1)

RECURSIVE PlusToSpace(_, _)
PlusToSpace(s, i) ==
    IF i > Len(s) THEN ""
    ELSE (IF Char(s, i) = "+" THEN " " ELSE Char(s, i)) \o PlusToSpace(s, i + 1)

FormDecode(s) == PercentDecode(PlusToSpace(s, 1), 1)

\* the urlencoded serializer: a list of <<name, value>> to a query string
RECURSIVE FormSerialize(_)
FormSerialize(list) ==
    IF list = <<>> THEN ""
    ELSE FormEncode(list[1][1], 1) \o "=" \o FormEncode(list[1][2], 1)
         \o (IF Len(list) > 1 THEN "&" ELSE "") \o FormSerialize(Tail(list))

RECURSIVE FormParsePieces(_)
FormParsePieces(pieces) ==
    IF pieces = <<>> THEN <<>>
    ELSE LET p  == pieces[1]
             eq == FindChar(p, {"="}, 1)
         IN  (IF p = "" THEN <<>>
              ELSE << <<FormDecode(SubSeq(p, 1, eq - 1)),
                        FormDecode(SubSeq(p, eq + 1, Len(p)))>> >>)
             \o FormParsePieces(Tail(pieces))

\* the urlencoded parser: a query string to a list of <<name, value>>
FormParse(q) == FormParsePieces(Split(q, {"&"}))

(***************************************************************************)
(* new URL(input), without a base: the URL parser for http and https       *)
(***************************************************************************)
URLFail == [ok |-> FALSE, scheme |-> "", host |-> "", path |-> <<>>,
            query |-> <<>>, fragment |-> <<>>, searchParams |-> <<>>]

SchemeChars == Letters \cup {"0", "1", "2", "3", "4", "5", "6", "7", "8", "9", "+", "-", "."}

RECURSIVE SchemeEnd(_, _)
SchemeEnd(s, i) ==
    IF i <= Len(s) /\ Char(s, i) \in SchemeChars THEN SchemeEnd(s, i + 1) ELSE i

RECURSIVE SkipSlashes(_, _)
SkipSlashes(s, i) ==
    IF i <= Len(s) /\ Char(s, i) \in {"/", "\\"} THEN SkipSlashes(s, i + 1) ELSE i

SingleDot == {".", "%2e", "%2E"}

DoubleDot == {"..", ".%2e", ".%2E", "%2e.", "%2E.", "%2e%2e", "%2E%2E", "%2e%2E", "%2E%2e"}

\* the path state: ".." drops the segment before it, "." is dropped, and either
\* one as the last segment leaves an empty last segment
RECURSIVE PathSegments(_, _, _)
PathSegments(raw, i, acc) ==
    IF i > Len(raw) THEN acc
    ELSE LET seg  == raw[i]
             last == i = Len(raw)
         IN  IF seg \in DoubleDot
             THEN LET popped == IF acc = <<>> THEN acc ELSE SubSeq(acc, 1, Len(acc) - 1)
                  IN  PathSegments(raw, i + 1, IF last THEN Append(popped, "") ELSE popped)
             ELSE IF seg \in SingleDot
             THEN PathSegments(raw, i + 1, IF last THEN Append(acc, "") ELSE acc)
             ELSE PathSegments(raw, i + 1,
                               Append(acc, PercentEncode(seg, PathPercentEncodeSet, 1)))

URLparse(s) ==
    LET e == SchemeEnd(s, 1)
    IN  IF s = "" \/ Char(s, 1) \notin Letters \/ e > Len(s) \/ Char(s, e) # ":"
        THEN URLFail
        ELSE LET scheme == SubSeq(s, 1, e - 1)
                 h  == SkipSlashes(s, e + 1)
                 p  == FindChar(s, {"/", "\\", "?", "#"}, h)
                 q  == FindChar(s, {"?", "#"}, p)
                 f  == FindChar(s, {"#"}, q)
                 rawPath == SubSeq(s, p, q - 1)
                 query == IF q <= Len(s) /\ Char(s, q) = "?"
                          THEN <<PercentEncode(SubSeq(s, q + 1, f - 1),
                                               QueryPercentEncodeSet, 1)>>
                          ELSE <<>>
             IN  IF scheme \notin {"http", "https"} \/ p = h
                 THEN URLFail
                 ELSE [ok |-> TRUE, scheme |-> scheme, host |-> SubSeq(s, h, p - 1),
                       path |-> IF rawPath = "" THEN <<"">>
                                ELSE PathSegments(
                                         Split(SubSeq(rawPath, 2, Len(rawPath)), {"/", "\\"}),
                                         1, <<>>),
                       query |-> query,
                       fragment |-> IF f <= Len(s)
                                    THEN <<PercentEncode(SubSeq(s, f + 1, Len(s)),
                                                         FragmentPercentEncodeSet, 1)>>
                                    ELSE <<>>,
                       searchParams |-> IF query = <<>> THEN <<>> ELSE FormParse(query[1])]

\* url.pathname
URLpathname(u) == "/" \o Join(u.path, "/")

\* url.toString(), url.href
URLtoString(u) ==
    u.scheme \o "://" \o u.host \o URLpathname(u)
    \o (IF u.query = <<>> THEN "" ELSE "?" \o u.query[1])
    \o (IF u.fragment = <<>> THEN "" ELSE "#" \o u.fragment[1])

\* url.searchParams.append(name, value): the list grows and the URL's query
\* becomes the serialization of the whole list
SearchParamsAppend(u, name, value) ==
    LET list == Append(u.searchParams, <<name, value>>)
    IN  [u EXCEPT !.searchParams = list, !.query = <<FormSerialize(list)>>]

(***************************************************************************)
(* The tool table: one descriptor per server.registerTool call.            *)
(*   method, path : the fetch method and the endpoint template literal     *)
(*   useURL       : the handler builds `new URL(fullUrl)` for a query      *)
(*   query        : the url.searchParams.append statements, in order       *)
(*   body         : the properties of the object given to JSON.stringify   *)
(*   schema       : the keys of inputSchema                                *)
(***************************************************************************)
Lit(s) == [arg |-> FALSE, s |-> s]
\* ${key} in the endpoint template literal
Arg(key) == [arg |-> TRUE, s |-> key]

\* url.searchParams.append('key', key)
Always(key) == [key |-> key, guarded |-> FALSE, each |-> FALSE]
\* if (key !== undefined) { url.searchParams.append('key', String(key)) }
IfDefined(key) == [key |-> key, guarded |-> TRUE, each |-> FALSE]
\* if (key !== undefined) { key.forEach(id => url.searchParams.append('key', id)) }
ForEach(key) == [key |-> key, guarded |-> TRUE, each |-> TRUE]

\* body: JSON.stringify({ ... }) with properties << <<name, argument>>, ... >>
Body(props) == [present |-> TRUE, props |-> props]
\* a fetch without a body property
NoBody == [present |-> FALSE, props |-> <<>>]

\* z.<kind>()
Required(key, kind) == [key |-> key, kind |-> kind, optional |-> FALSE, default |-> <<>>]
\* z.<kind>().optional()
Optional(key, kind) == [key |-> key, kind |-> kind, optional |-> TRUE, default |-> <<>>]
\* z.<kind>().default(d).optional(): ZodOptional around ZodDefault
OptionalDefault(key, kind, d) ==
    [key |-> key, kind |-> kind, optional |-> TRUE, default |-> <<d>>]

postCreateOptionset ==
    [name |-> "postCreateOptionset", method |-> "POST", useURL |-> FALSE,
     path |-> <<Lit("/v3/app/optionsets")>>,
     query |-> <<>>,
     body |-> Body(<< <<"name", "name">>, <<"options", "options">>,
                   <<"enableColor", "enableColor">>,
                   <<"enableScore", "enableScore">> >>),
     schema |-> <<Required("name", "string"), Required("options", "objects"),
                  Required("enableColor", "boolean"),
                  Required("enableScore", "boolean"),
                  Required("ai_description", "string")>>]

createRecord ==
    [name |-> "createRecord", method |-> "POST", useURL |-> FALSE,
     path |-> <<Lit("/v3/app/worksheets/"), Arg("worksheet_id"), Lit("/rows")>>,
     query |-> <<>>,
     body |-> Body(<< <<"fields", "fields">>,
                   <<"triggerWorkflow", "triggerWorkflow">> >>),
     schema |-> <<Required("worksheet_id", "string"),
                  Required("fields", "objects"),
                  OptionalDefault("triggerWorkflow", "boolean", Bool(TRUE)),
                  Required("ai_description", "string")>>]

createRole ==
    [name |-> "createRole", method |-> "POST", useURL |-> FALSE,
     path |-> <<Lit("/v3/app/roles")>>,
     query |-> <<>>,
     body |-> Body(<< <<"name", "name">>, <<"description", "description">>,
                   <<"hideAppForMembers", "hideAppForMembers">>,
                   <<"type", "type">>,
                   <<"permissionScope", "permissionScope">>,
                   <<"globalPermissions", "globalPermissions">>,
                   <<"worksheetPermissions", "worksheetPermissions">>,
                   <<"pagePermissions", "pagePermissions">> >>),
     schema |-> <<Required("name", "string"),
                  Required("description", "string"),
                  Required("hideAppForMembers", "string"),
                  Required("type", "string"),
                  Required("permissionScope", "string"),
                  Optional("globalPermissions", "object"),
                  Optional("worksheetPermissions", "objects"),
                  Optional("pagePermissions", "objects"),
                  Required("ai_description", "string")>>]

createWorksheet ==
    [name |-> "createWorksheet", method |-> "POST", useURL |-> FALSE,
     path |-> <<Lit("/v3/app/worksheets")>>,
     query |-> <<>>,
     body |-> Body(<< <<"name", "name">>, <<"alias", "alias">>,
                   <<"sectionId", "sectionId">>, <<"fields", "fields">> >>),
     schema |-> <<Required("name", "string"), Optional("alias", "string"),
                  Optional("sectionId", "string"),
                  Required("fields", "objects"),
                  Required("ai_description", "string")>>]

deleteOptionset ==
    [name |-> "deleteOptionset", method |-> "DELETE", useURL |-> FALSE,
     path |-> <<Lit("/v3/app/optionsets/"), Arg("optionset_id")>>,
     query |-> <<>>,
     body |-> NoBody,
     schema |-> <<Required("optionset_id", "string"),
                  Required("ai_description", "string")>>]

\* a deleteRecord that repeats row_id in its body
deleteRecordRowInBody ==
    [name |-> "deleteRecord", method |-> "DELETE", useURL |-> FALSE,
     path |-> <<Lit("/v3/app/worksheets/"), Arg("worksheet_id"), Lit("/rows/"), Arg("row_id")>>,
     query |-> <<>>,
     body |-> Body(<< <<"row_id", "row_id">>,
                   <<"triggerWorkflow", "triggerWorkflow">>,
                   <<"permanent", "permanent">> >>),
     schema |-> <<Required("worksheet_id", "string"),
                  Required("row_id", "string"),
                  OptionalDefault("triggerWorkflow", "boolean", Bool(TRUE)),
                  Optional("permanent", "boolean"),
                  Required("ai_description", "string")>>]

deleteRecord ==
    [name |-> "deleteRecord", method |-> "DELETE", useURL |-> FALSE,
     path |-> <<Lit("/v3/app/worksheets/"), Arg("worksheet_id"), Lit("/rows/"), Arg("row_id")>>,
     query |-> <<>>,
     body |-> Body(<< <<"triggerWorkflow", "triggerWorkflow">>,
                   <<"permanent", "permanent">> >>),
     schema |-> <<Required("worksheet_id", "string"),
                  Required("row_id", "string"),
                  OptionalDefault("triggerWorkflow", "boolean", Bool(TRUE)),
                  Optional("permanent", "boolean"),
                  Required("ai_description", "string")>>]

deleteRole ==
    [name |-> "deleteRole", method |-> "DELETE", useURL |-> FALSE,
     path |-> <<Lit("/v3/app/roles/"), Arg("role_id")>>,
     query |-> <<>>,
     body |-> NoBody,
     schema |-> <<Required("role_id", "string"),
                  Required("ai_description", "string")>>]

\* a deleteWorksheet that is sent with GET
deleteWorksheetWithGet ==
    [name |-> "deleteWorksheet", method |-> "GET", useURL |-> FALSE,
     path |-> <<Lit("/v3/app/worksheets/"), Arg("worksheet_id")>>,
     query |-> <<>>,
     body |-> NoBody,
     schema |-> <<Required("worksheet_id", "string"),
                  Required("ai_description", "string")>>]

deleteWorksheet ==
    [name |-> "deleteWorksheet", method |-> "DELETE", useURL |-> FALSE,
     path |-> <<Lit("/v3/app/worksheets/"), Arg("worksheet_id")>>,
     query |-> <<>>,
     body |-> NoBody,
     schema |-> <<Required("worksheet_id", "string"),
                  Required("ai_description", "string")>>]

findDepartment ==
    [name |-> "findDepartment", method |-> "GET", useURL |-> TRUE,
     path |-> <<Lit("/v3/departments/lookup")>>,
     query |-> <<Always("name")>>,
     body |-> NoBody,
     schema |-> <<Required("name", "string"),
                  Required("ai_description", "string")>>]

findMember ==
    [name |-> "findMember", method |-> "GET", useURL |-> TRUE,
     path |-> <<Lit("/v3/users/lookup")>>,
     query |-> <<Always("name")>>,
     body |-> NoBody,
     schema |-> <<Required("name", "string"),
                  Required("ai_description", "string")>>]

getAppInfo ==
    [name |-> "getAppInfo", method |-> "GET", useURL |-> FALSE,
     path |-> <<Lit("/v3/app")>>,
     query |-> <<>>,
     body |-> NoBody,
     schema |-> <<Required("ai_description", "string")>>]

getOptionsetList ==
    [name |-> "getOptionsetList", method |-> "GET", useURL |-> FALSE,
     path |-> <<Lit("/v3/app/optionsets")>>,
     query |-> <<>>,
     body |-> NoBody,
     schema |-> <<Required("ai_description", "string")>>]

getRecordDetails ==
    [name |-> "getRecordDetails", method |-> "GET", useURL |-> TRUE,
     path |-> <<Lit("/v3/app/worksheets/"), Arg("worksheet_id"), Lit("/rows/"), Arg("row_id")>>,
     query |-> <<IfDefined("includeSystemFields")>>,
     body |-> NoBody,
     schema |-> <<Required("worksheet_id", "string"),
                  Required("row_id", "string"),
                  OptionalDefault("includeSystemFields", "boolean", Bool(FALSE)),
                  Required("ai_description", "string")>>]

getRecordDiscussions ==
    [name |-> "getRecordDiscussions", method |-> "GET", useURL |-> TRUE,
     path |-> <<Lit("/v3/app/worksheets/"), Arg("worksheet_id"), Lit("/rows/"), Arg("row_id"), Lit("/discussions")>>,
     query |-> <<IfDefined("pageIndex"), IfDefined("pageSize"), IfDefined("search"), IfDefined("onlyWithAttachments")>>,
     body |-> NoBody,
     schema |-> <<Required("worksheet_id", "string"),
                  Required("row_id", "string"), Optional("pageIndex", "int"),
                  Optional("pageSize", "int"), Optional("search", "string"),
                  OptionalDefault("onlyWithAttachments", "boolean", Bool(FALSE)),
                  Required("ai_description", "string")>>]

getRecordList ==
    [name |-> "getRecordList", method |-> "POST", useURL |-> FALSE,
     path |-> <<Lit("/v3/app/worksheets/"), Arg("worksheet_id"), Lit("/rows/list")>>,
     query |-> <<>>,
     body |-> Body(<< <<"pageSize", "pageSize">>, <<"pageIndex", "pageIndex">>,
                   <<"viewId", "viewId">>, <<"fields", "fields">>,
                   <<"filter", "filter">>, <<"sorts", "sorts">>,
                   <<"search", "search">>, <<"tableView", "tableView">>,
                   <<"useFieldIdAsKey", "useFieldIdAsKey">>,
                   <<"includeTotalCount", "includeTotalCount">>,
                   <<"includeSystemFields", "includeSystemFields">>,
                   <<"responseFormat", "responseFormat">> >>),
     schema |-> <<Required("worksheet_id", "string"),
                  Required("pageSize", "int"), Required("pageIndex", "int"),
                  Optional("viewId", "string"), Optional("fields", "strings"),
                  Optional("filter", "any"), Optional("sorts", "objects"),
                  Optional("search", "string"),
                  Optional("tableView", "boolean"),
                  Optional("useFieldIdAsKey", "boolean"),
                  OptionalDefault("includeTotalCount", "boolean", Bool(FALSE)),
                  OptionalDefault("includeSystemFields", "boolean", Bool(FALSE)),
                  Optional("responseFormat", "enum"),
                  Required("ai_description", "string")>>]

getRecordLogs ==
    [name |-> "getRecordLogs", method |-> "GET", useURL |-> TRUE,
     path |-> <<Lit("/v3/app/worksheets/"), Arg("worksheet_id"), Lit("/rows/"), Arg("row_id"), Lit("/logs")>>,
     query |-> <<ForEach("operatorIds"), IfDefined("field"), IfDefined("pageSize"), IfDefined("pageIndex"), IfDefined("startDate"), IfDefined("endDate")>>,
     body |-> NoBody,
     schema |-> <<Required("worksheet_id", "string"),
                  Required("row_id", "string"),
                  Optional("operatorIds", "strings"),
                  Optional("field", "string"), Optional("pageSize", "int"),
                  Optional("pageIndex", "int"),
                  Optional("startDate", "string"),
                  Optional("endDate", "string"),
                  Required("ai_description", "string")>>]

getRecordPivotData ==
    [name |-> "getRecordPivotData", method |-> "POST", useURL |-> FALSE,
     path |-> <<Lit("/v3/app/worksheets/"), Arg("worksheet_id"), Lit("/rows/pivot")>>,
     query |-> <<>>,
     body |-> Body(<< <<"pageSize", "pageSize">>, <<"pageIndex", "pageIndex">>,
                   <<"viewId", "viewId">>, <<"columns", "columns">>,
                   <<"rows", "rows">>, <<"values", "values">>,
                   <<"filter", "filter">>, <<"sorts", "sorts">>,
                   <<"includeSummary", "includeSummary">> >>),
     schema |-> <<Required("worksheet_id", "string"),
                  Optional("pageSize", "int"), Optional("pageIndex", "int"),
                  Optional("viewId", "string"), Optional("columns", "objects"),
                  Optional("rows", "objects"), Required("values", "objects"),
                  Optional("filter", "any"), Optional("sorts", "objects"),
                  Optional("includeSummary", "boolean"),
                  Required("ai_description", "string")>>]

getRecordRelations ==
    [name |-> "getRecordRelations", method |-> "GET", useURL |-> TRUE,
     path |-> <<Lit("/v3/app/worksheets/"), Arg("worksheet_id"), Lit("/rows/"), Arg("row_id"), Lit("/relations/"), Arg("field")>>,
     query |-> <<IfDefined("pageSize"), IfDefined("pageIndex"), IfDefined("isReturnSystemFields")>>,
     body |-> NoBody,
     schema |-> <<Required("worksheet_id", "string"),
                  Required("row_id", "string"), Required("field", "string"),
                  Optional("pageSize", "int"), Optional("pageIndex", "int"),
                  Optional("isReturnSystemFields", "boolean"),
                  Required("ai_description", "string")>>]

getRecordShareLink ==
    [name |-> "getRecordShareLink", method |-> "POST", useURL |-> FALSE,
     path |-> <<Lit("/v3/app/worksheets/"), Arg("worksheet_id"), Lit("/rows/"), Arg("row_id"), Lit("/share-link")>>,
     query |-> <<>>,
     body |-> Body(<< <<"visibleFields", "visibleFields">>,
                   <<"expiredIn", "expiredIn">>, <<"password", "password">> >>),
     schema |-> <<Required("worksheet_id", "string"),
                  Required("row_id", "string"),
                  Optional("visibleFields", "strings"),
                  Optional("expiredIn", "int"), Optional("password", "string"),
                  Required("ai_description", "string")>>]

getRegions ==
    [name |-> "getRegions", method |-> "GET", useURL |-> TRUE,
     path |-> <<Lit("/v3/regions")>>,
     query |-> <<IfDefined("id"), IfDefined("search")>>,
     body |-> NoBody,
     schema |-> <<Optional("id", "string"), Optional("search", "string"),
                  Required("ai_description", "string")>>]

getRoleDetails ==
    [name |-> "getRoleDetails", method |-> "GET", useURL |-> FALSE,
     path |-> <<Lit("/v3/app/roles/"), Arg("role_id")>>,
     query |-> <<>>,
     body |-> NoBody,
     schema |-> <<Required("role_id", "string"),
                  Required("ai_description", "string")>>]

getRoleList ==
    [name |-> "getRoleList", method |-> "GET", useURL |-> FALSE,
     path |-> <<Lit("/v3/app/roles")>>,
     query |-> <<>>,
     body |-> NoBody,
     schema |-> <<Required("ai_description", "string")>>]

getWorkflowDetails ==
    [name |-> "getWorkflowDetails", method |-> "GET", useURL |-> FALSE,
     path |-> <<Lit("/v3/app/workflow/processes/"), Arg("process_id")>>,
     query |-> <<>>,
     body |-> NoBody,
     schema |-> <<Required("process_id", "string"),
                  Required("ai_description", "string")>>]

getWorkflowList ==
    [name |-> "getWorkflowList", method |-> "GET", useURL |-> FALSE,
     path |-> <<Lit("/v3/app/workflow/processes")>>,
     query |-> <<>>,
     body |-> NoBody,
     schema |-> <<Required("ai_description", "string")>>]

getWorksheetsList ==
    [name |-> "getWorksheetsList", method |-> "POST", useURL |-> FALSE,
     path |-> <<Lit("/v3/app/worksheets/list")>>,
     query |-> <<>>,
     body |-> Body(<< <<"responseFormat", "responseFormat">>,
                   <<"worksheets", "worksheets">> >>),
     schema |-> <<Optional("responseFormat", "enum"),
                  Optional("worksheets", "strings"),
                  Required("ai_description", "string")>>]

getWorksheetStructure ==
    [name |-> "getWorksheetStructure", method |-> "GET", useURL |-> TRUE,
     path |-> <<Lit("/v3/app/worksheets/"), Arg("worksheet_id")>>,
     query |-> <<IfDefined("responseFormat")>>,
     body |-> NoBody,
     schema |-> <<Required("worksheet_id", "string"),
                  Optional("responseFormat", "enum"),
                  Required("ai_description", "string")>>]

leaveAllRoles ==
    [name |-> "leaveAllRoles", method |-> "DELETE", useURL |-> FALSE,
     path |-> <<Lit("/v3/app/roles/users/"), Arg("user_id")>>,
     query |-> <<>>,
     body |-> NoBody,
     schema |-> <<Required("user_id", "string"),
                  Required("ai_description", "string")>>]

removeMemberFromRole ==
    [name |-> "removeMemberFromRole", method |-> "DELETE", useURL |-> FALSE,
     path |-> <<Lit("/v3/app/roles/"), Arg("role_id"), Lit("/members")>>,
     query |-> <<>>,
     body |-> Body(<< <<"operatorId", "operatorId">>, <<"userIds", "userIds">>,
                   <<"departmentIds", "departmentIds">>,
                   <<"departmentTreeIds", "departmentTreeIds">>,
                   <<"jobIds", "jobIds">>, <<"orgRoleIds", "orgRoleIds">> >>),
     schema |-> <<Required("role_id", "string"),
                  Required("operatorId", "string"),
                  Optional("userIds", "strings"),
                  Optional("departmentIds", "strings"),
                  Optional("departmentTreeIds", "strings"),
                  Optional("jobIds", "strings"),
                  Optional("orgRoleIds", "strings"),
                  Required("ai_description", "string")>>]

\* a triggerWorkflow that names its body key `inputs`
triggerWorkflowPlainKey ==
    [name |-> "triggerWorkflow", method |-> "POST", useURL |-> FALSE,
     path |-> <<Lit("/v3/app/workflow/hooks/"), Arg("process_id")>>,
     query |-> <<>>,
     body |-> Body(<< <<"inputs", "inputs">> >>),
     schema |-> <<Required("process_id", "string"), Optional("inputs", "any"),
                  Required("ai_description", "string")>>]

triggerWorkflow ==
    [name |-> "triggerWorkflow", method |-> "POST", useURL |-> FALSE,
     path |-> <<Lit("/v3/app/workflow/hooks/"), Arg("process_id")>>,
     query |-> <<>>,
     body |-> Body(<< <<"{inputs}", "inputs">> >>),
     schema |-> <<Required("process_id", "string"), Optional("inputs", "any"),
                  Required("ai_description", "string")>>]

updateOptionset ==
    [name |-> "updateOptionset", method |-> "PUT", useURL |-> FALSE,
     path |-> <<Lit("/v3/app/optionsets/"), Arg("optionset_id")>>,
     query |-> <<>>,
     body |-> Body(<< <<"name", "name">>, <<"options", "options">>,
                   <<"enableColor", "enableColor">>,
                   <<"enableScore", "enableScore">> >>),
     schema |-> <<Required("optionset_id", "string"),
                  Required("name", "string"), Required("options", "objects"),
                  Required("enableColor", "boolean"),
                  Required("enableScore", "boolean"),
                  Required("ai_description", "string")>>]

updateRecord ==
    [name |-> "updateRecord", method |-> "PATCH", useURL |-> FALSE,
     path |-> <<Lit("/v3/app/worksheets/"), Arg("worksheet_id"), Lit("/rows/"), Arg("row_id")>>,
     query |-> <<>>,
     body |-> Body(<< <<"fields", "fields">>,
                   <<"triggerWorkflow", "triggerWorkflow">> >>),
     schema |-> <<Required("worksheet_id", "string"),
                  Required("row_id", "string"), Required("fields", "objects"),
                  OptionalDefault("triggerWorkflow", "boolean", Bool(TRUE)),
                  Required("ai_description", "string")>>]

updateWorksheet ==
    [name |-> "updateWorksheet", method |-> "POST", useURL |-> FALSE,
     path |-> <<Lit("/v3/app/worksheets/"), Arg("worksheet_id")>>,
     query |-> <<>>,
     body |-> Body(<< <<"name", "name">>, <<"alias", "alias">>,
                   <<"sectionId", "sectionId">>, <<"addFields", "addFields">>,
                   <<"editFields", "editFields">>,
                   <<"removeFields", "removeFields">> >>),
     schema |-> <<Required("worksheet_id", "string"),
                  Optional("name", "string"), Optional("alias", "string"),
                  Optional("sectionId", "string"),
                  Optional("addFields", "objects"),
                  Optional("editFields", "objects"),
                  Optional("removeFields", "strings"),
                  Required("ai_description", "string")>>]

\* a table whose last tool is registered under the name updateRecord
ToolsWithNameClash ==
    <<postCreateOptionset, createRecord, createRole, createWorksheet, deleteOptionset,
      deleteRecord, deleteRole, deleteWorksheet, findDepartment, findMember, getAppInfo,
      getOptionsetList, getRecordDetails, getRecordDiscussions, getRecordList,
      getRecordLogs, getRecordPivotData, getRecordRelations, getRecordShareLink,
      getRegions, getRoleDetails, getRoleList, getWorkflowDetails, getWorkflowList,
      getWorksheetsList, getWorksheetStructure, leaveAllRoles, removeMemberFromRole,
      triggerWorkflow, updateOptionset, updateRecord,
      [updateWorksheet EXCEPT !.name = "updateRecord"]>>

Tools ==
    <<postCreateOptionset, createRecord, createRole, createWorksheet, deleteOptionset,
      deleteRecord, deleteRole, deleteWorksheet, findDepartment, findMember, getAppInfo,
      getOptionsetList, getRecordDetails, getRecordDiscussions, getRecordList,
      getRecordLogs, getRecordPivotData, getRecordRelations, getRecordShareLink,
      getRegions, getRoleDetails, getRoleList, getWorkflowDetails, getWorkflowList,
      getWorksheetsList, getWorksheetStructure, leaveAllRoles, removeMemberFromRole,
      triggerWorkflow, updateOptionset, updateRecord, updateWorksheet>>

ToolNames == {Tools[i].name : i \in 1..Len(Tools)}

\* the handler registered under a name: the last registration of that name
Tool(name) == Tools[CHOOSE i \in 1..Len(Tools) :
                        /\ Tools[i].name = name
                        /\ \A j \in (i + 1)..Len(Tools) : Tools[j].name # name]

(***************************************************************************)
(* The schema step: McpServer parses the caller's arguments with the       *)
(* tool's inputSchema (a z.object of the shape) before it calls the        *)
(* handler.  Unknown keys are stripped.  For an absent key under           *)
(* .default(d).optional() zod 3 returns undefined (ZodOptional answers     *)
(* before ZodDefault is asked) and zod 4 returns d; the zod release is     *)
(* the build's, so the model keeps both.                                   *)
(***************************************************************************)
ZodReleases == {"zod3", "zod4"}

ParseKey(entry, input, zodRelease) ==
    LET given == GetProp(input, entry.key)
    IN  IF given.t = "undefined" /\ entry.default # <<>> /\ zodRelease = "zod4"
        THEN entry.default[1]
        ELSE given

RECURSIVE ParseShape(_, _, _, _)
ParseShape(schema, input, zodRelease, i) ==
    IF i > Len(schema) THEN <<>>
    ELSE LET val == ParseKey(schema[i], input, zodRelease)
         IN  (IF val.t = "undefined" THEN <<>> ELSE << <<schema[i].key, val>> >>)
             \o ParseShape(schema, input, zodRelease, i + 1)

\* the args object the handler destructures
SchemaParse(tool, input, zodRelease) == Obj(ParseShape(tool.schema, input, zodRelease, 1))

\* the description of the ai_description argument each tool publishes in its
\* input schema (tools/list); getAppInfo builds its own from the configuration.
\* The five Chinese characters of postCreateOptionset are written as code points.
AiDescriptionHint(cfg, name) ==
    CASE name = "postCreateOptionset" ->
             "U+521B U+5EFA U+9009 U+9879 U+96C6"
      [] name = "createRecord" ->
             "e.g. Worksheet: <Worksheet Name>. Response in user's language."
      [] name = "createRole" ->
             "e.g. Role: <Role Name>. Response in user's language."
      [] name = "createWorksheet" ->
             "e.g. Worksheet: <Worksheet Name>. Response in user's language."
      [] name = "deleteOptionset" ->
             "e.g. Optionset: <Optionset Name>. Response in user's language."
      [] name = "deleteRecord" ->
             "e.g. Worksheet: <Worksheet Name>, Record: <Record Title>. Response in user's language."
      [] name = "deleteRole" ->
             "e.g. Role: <Role Name>. Response in user's language."
      [] name = "deleteWorksheet" ->
             "e.g. Worksheet: <Worksheet Name>. Response in user's language."
      [] name = "findDepartment" ->
             "e.g. Department: <Department Name>. Response in user's language."
      [] name = "findMember" ->
             "e.g. Name: <Person's Name>. Response in user's language."
      [] name = "getAppInfo" ->
             "e.g. Get application information. Response in user's language. KEY/SIGN:"
             \o String(cfg.hapAppkey) \o " / " \o String(cfg.hapSign)
      [] name = "getOptionsetList" ->
             "e.g. Get a list of optionsets in the application. Response in user's language."
      [] name = "getRecordDetails" ->
             "e.g. Worksheet: <Worksheet Name>. Response in user's language."
      [] name = "getRecordDiscussions" ->
             "e.g. Worksheet: <Worksheet Name>, Record: <Record Title>. Response in user's language."
      [] name = "getRecordList" ->
             "Description of the query parameters, including worksheet, view (if any), filter conditions, sorting, etc. Output detailed field names and condition operators/values. Response in user's language."
      [] name = "getRecordLogs" ->
             "e.g. Worksheet: <Worksheet Name>, Record: <Record Title>. Response in user's language."
      [] name = "getRecordPivotData" ->
             "Description of the query parameters, including worksheet, view (if any), filter conditions, dimensions, values, sorting, etc. Output detailed field names and condition operators/values. Response in user's language."
      [] name = "getRecordRelations" ->
             "e.g. Worksheet: <Worksheet Name>, Record: <Record Title>, Field: <Field Name>. Response in user's language."
      [] name = "getRecordShareLink" ->
             "e.g. Worksheet: <Worksheet Name>, Record: <Record Title>. Response in user's language."
      [] name = "getRegions" ->
             "e.g. Region: <Region Name>. Response in user's language."
      [] name = "getRoleDetails" ->
             "e.g. Role: <Role Name>. Response in user's language."
      [] name = "getRoleList" ->
             "e.g. Get a list of roles in the application. Response in user's language."
      [] name = "getWorkflowDetails" ->
             "e.g. Workflow: <Workflow Name>. Response in user's language."
      [] name = "getWorkflowList" ->
             "e.g. Get a list of workflows in the application. Response in user's language."
      [] name = "getWorksheetsList" ->
             "e.g. Get the list of worksheets under a specific application. Response in user's language."
      [] name = "getWorksheetStructure" ->
             "e.g. Worksheet: <Worksheet Name>. Response in user's language."
      [] name = "leaveAllRoles" ->
             "e.g. Member: <Member Name>. Response in user's language."
      [] name = "removeMemberFromRole" ->
             "e.g. Role: <Role Name>, Remove Member: <(Type) Name>. Response in user's language."
      [] name = "triggerWorkflow" ->
             "e.g. Workflow: <Workflow Name>. Response in user's language."
      [] name = "updateOptionset" ->
             "e.g. Optionset: <Optionset Name>. Response in user's language."
      [] name = "updateRecord" ->
             "e.g. Worksheet: <Worksheet Name>, Record: <Record Title>. Response in user's language."
      [] name = "updateWorksheet" ->
             "e.g. Worksheet: <Worksheet Name>, add fields (if any), modify fields (if any), delete fields (if any). Response in user's language."

(***************************************************************************)
(* The handler, up to its first await                                      *)
(***************************************************************************)
\* an endpoint whose placeholders are all filled from the argument of the first
RECURSIVE EndpointFromFirst(_, _, _)
EndpointFromFirst(path, args, i) ==
    IF i > Len(path) THEN ""
    ELSE LET first == CHOOSE k \in 1..Len(path) :
                          path[k].arg /\ \A j \in 1..(k - 1) : ~path[j].arg
         IN  (IF path[i].arg THEN String(GetProp(args, path[first].s)) ELSE path[i].s)
             \o EndpointFromFirst(path, args, i + 1)

\* an endpoint that ends with its first placeholder
RECURSIVE EndpointTruncated(_, _, _)
EndpointTruncated(path, args, i) ==
    IF i > Len(path) THEN ""
    ELSE IF path[i].arg THEN String(GetProp(args, path[i].s))
    ELSE path[i].s \o EndpointTruncated(path, args, i + 1)

\* let endpoint = `/v3/app/worksheets/${worksheet_id}/rows/${row_id}`
RECURSIVE Endpoint(_, _, _)
Endpoint(path, args, i) ==
    IF i > Len(path) THEN ""
    ELSE (IF path[i].arg THEN String(GetProp(args, path[i].s)) ELSE path[i].s)
         \o Endpoint(path, args, i + 1)

\* const fullUrl = `${apiBaseUrl}${endpoint}`
FullUrl(cfg, tool, args) == String(cfg.apiBaseUrl) \o Endpoint(tool.path, args, 1)

\* a credential check that lets a call through unless both are missing
MissingCredentialsBoth(cfg) == ~Truthy(cfg.hapAppkey) /\ ~Truthy(cfg.hapSign)

\* if (!hapAppkey || !hapSign)
MissingCredentials(cfg) == ~Truthy(cfg.hapAppkey) \/ ~Truthy(cfg.hapSign)

MissingCredentialsText == "Error: HAP-Appkey or HAP-Sign missing in server config."

\* { content: [{ type: "text", text }] }
Envelope(text) == [content |-> << [type |-> "text", text |-> text] >>]

\* headers with the two credential values exchanged
HeadersSwapped(cfg) ==
    << <<"Content-Type", "application/json">>,
       <<"HAP-Appkey", String(cfg.hapSign)>>,
       <<"HAP-Sign", String(cfg.hapAppkey)>> >>

\* headers that tell the remote when the server runs with debug on
HeadersDebug(cfg) ==
    << <<"Content-Type", "application/json">>,
       <<"HAP-Appkey", String(cfg.hapAppkey)>>,
       <<"HAP-Sign", String(cfg.hapSign)>> >>
    \o (IF cfg.debug = Bool(TRUE) THEN << <<"X-Debug", "1">> >> ELSE <<>>)

\* headers: { "Content-Type": ..., "HAP-Appkey": hapAppkey, "HAP-Sign": hapSign }
Headers(cfg) ==
    << <<"Content-Type", "application/json">>,
       <<"HAP-Appkey", String(cfg.hapAppkey)>>,
       <<"HAP-Sign", String(cfg.hapSign)>> >>

\* an array sent as one parameter, its elements joined by commas
AppendEachJoined(u, key, xs, i) == SearchParamsAppend(u, key, String(Arr(xs)))

RECURSIVE AppendEach(_, _, _, _)
AppendEach(u, key, xs, i) ==
    IF i > Len(xs) THEN u
    ELSE AppendEach(SearchParamsAppend(u, key, String(xs[i])), key, xs, i + 1)

\* the append statements without their !== undefined guards
RECURSIVE AppendQueryUnguarded(_, _, _, _)
AppendQueryUnguarded(u, query, args, i) ==
    IF i > Len(query) THEN u
    ELSE LET q   == query[i]
             val == GetProp(args, q.key)
         IN  IF q.each /\ val.t = "array"
             THEN AppendQueryUnguarded(AppendEach(u, q.key, val.v, 1), query, args, i + 1)
             ELSE AppendQueryUnguarded(SearchParamsAppend(u, q.key, String(val)),
                                       query, args, i + 1)

\* the url.searchParams.append statements of a handler, in order
RECURSIVE AppendQuery(_, _, _, _)
AppendQuery(u, query, args, i) ==
    IF i > Len(query) THEN u
    ELSE LET q   == query[i]
             val == GetProp(args, q.key)
         IN  IF q.guarded /\ val.t = "undefined" THEN AppendQuery(u, query, args, i + 1)
             ELSE IF q.each THEN AppendQuery(AppendEach(u, q.key, val.v, 1), query, args, i + 1)
             ELSE AppendQuery(SearchParamsAppend(u, q.key, String(val)), query, args, i + 1)

RECURSIVE BodyProps(_, _, _)
BodyProps(props, args, i) ==
    IF i > Len(props) THEN <<>>
    ELSE << <<props[i][1], GetProp(args, props[i][2])>> >> \o BodyProps(props, args, i + 1)

\* a body that encodes an argument left undefined as null
RequestBodyNulls(tool, args) ==
    IF tool.body.present
    THEN LET props == BodyProps(tool.body.props, args, 1)
         IN  <<JSONstringify(Obj([i \in 1..Len(props) |->
                                     IF props[i][2].t = "undefined"
                                     THEN <<props[i][1], Null>> ELSE props[i]]))>>
    ELSE <<>>

\* a body that also carries ai_description
RequestBodyWithDescription(tool, args) ==
    IF tool.body.present
    THEN <<JSONstringify(Obj(BodyProps(tool.body.props, args, 1)
                             \o << <<"ai_description", GetProp(args, "ai_description")>> >>))>>
    ELSE <<>>

\* body: JSON.stringify({ fields, triggerWorkflow }); <<>> when fetch gets no body
RequestBody(tool, args) ==
    IF tool.body.present
    THEN <<JSONstringify(Obj(BodyProps(tool.body.props, args, 1)))>>
    ELSE <<>>

\* fetch(input, { method, headers, body }) up to the point where the request
\* goes out: [ok, request] or [~ok, error], the value the promise rejects with
Fetch(input, method, headers, body) ==
    LET u == URLparse(input)
    IN  IF ~u.ok
        THEN [ok |-> FALSE, error |-> Err("Failed to parse URL from " \o input),
              request |-> <<>>]
        ELSE IF method \in {"GET", "HEAD"} /\ body # <<>>
        THEN [ok |-> FALSE, error |-> Err("Request with GET/HEAD method cannot have body."),
              request |-> <<>>]
        ELSE [ok |-> TRUE, error |-> Undefined,
              request |-> << [method |-> method, url |-> URLtoString(u),
                              headers |-> headers, body |-> body] >>]

\* the statements of the try block before `await fetch`: the URL object of a
\* query tool, then the fetch call
TryFetch(cfg, tool, args) ==
    LET fullUrl == FullUrl(cfg, tool, args)
        url     == URLparse(fullUrl)
    IN  IF tool.useURL /\ ~url.ok
        THEN [ok |-> FALSE, error |-> Err("Invalid URL"), request |-> <<>>]
        ELSE Fetch(IF tool.useURL
                   THEN URLtoString(AppendQuery(url, tool.query, args, 1))
                   ELSE fullUrl,
                   tool.method, Headers(cfg), RequestBody(tool, args))

(***************************************************************************)
(* One invocation of a handler                                             *)
(*   pc       idle / fetching (await fetch) / reading (await               *)
(*            response.json()) / returned / threw                          *)
(*   tool     the tool's name, input the caller's arguments                *)
(*   sent     the requests this invocation has put on the network          *)
(*   response the Response fetch resolved with, caught the catch block's   *)
(*            `error`, result the returned value, thrown the value the     *)
(*            handler's promise rejected with                              *)
(***************************************************************************)
Idle == [pc |-> "idle", tool |-> "", input |-> Obj(<<>>), sent |-> <<>>,
         response |-> <<>>, caught |-> <<>>, result |-> <<>>, thrown |-> <<>>]

Return(r, text) == [r EXCEPT !.pc = "returned", !.result = <<Envelope(text)>>]

\* a catch block that reports what it caught as a remote error with status 500
CatchAsStatus(r, error) ==
    Return([r EXCEPT !.caught = <<error>>],
           JSONstringify(Obj(<< <<"error", Str(String(GetProp(error, "message")))>>,
                                <<"statusCode", Num(500)>> >>)))

\* catch (error) { return ... `Error calling external API: ${error.message}` }
\* error.message of null or undefined is a TypeError raised inside the catch
\* block, which nothing catches
Catch(r, error) ==
    IF error.t \in {"null", "undefined"}
    THEN [r EXCEPT !.pc = "threw", !.caught = <<error>>,
                   !.thrown = <<Err("Cannot read properties of " \o String(error)
                                    \o " (reading 'message')")>>]
    ELSE Return([r EXCEPT !.caught = <<error>>],
                "Error calling external API: " \o String(GetProp(error, "message")))

\* a handler that builds its URL before it looks at the credentials
HandlerStartUrlFirst(cfg, zodRelease, name, input) ==
    LET tool == Tool(name)
        args == SchemaParse(tool, input, zodRelease)
        r    == [Idle EXCEPT !.tool = name, !.input = input]
    IN  IF ~URLparse(FullUrl(cfg, tool, args)).ok THEN Catch(r, Err("Invalid URL"))
        ELSE IF MissingCredentials(cfg) THEN Return(r, MissingCredentialsText)
        ELSE LET f == TryFetch(cfg, tool, args)
             IN  IF f.ok THEN [r EXCEPT !.pc = "fetching", !.sent = f.request]
                 ELSE Catch(r, f.error)

\* the handler from its call to its first await, or to its return
HandlerStart(cfg, zodRelease, name, input) ==
    LET tool == Tool(name)
        args == SchemaParse(tool, input, zodRelease)
        r    == [Idle EXCEPT !.tool = name, !.input = input]
    IN  IF MissingCredentials(cfg) THEN Return(r, MissingCredentialsText)
        ELSE LET f == TryFetch(cfg, tool, args)
             IN  IF f.ok THEN [r EXCEPT !.pc = "fetching", !.sent = f.request]
                 ELSE Catch(r, f.error)

\* fetch resolved: const result = await response.json()
OnFetchResolved(r, response) == [r EXCEPT !.pc = "reading", !.response = <<response>>]

\* a handler that issues the request once more when fetch rejects
OnFetchRejectedRetry(r, error) ==
    IF Len(r.sent) < 2 THEN [r EXCEPT !.sent = Append(@, @[1])] ELSE Catch(r, error)

\* fetch rejected
OnFetchRejected(r, error) == Catch(r, error)

\* response.ok
ResponseOk(response) == response.status \in 200..299

\* a normalization that reports a fixed status code for every remote error
NormalizeFixedStatus(r, response, result) ==
    IF ~ResponseOk(response)
    THEN IF result.t = "null"
         THEN Catch(r, Err("Cannot read properties of null (reading 'error_msg')"))
         ELSE LET msg == GetProp(result, "error_msg")
              IN  Return(r, JSONstringify(Obj(<<
                        <<"error", IF Truthy(msg) THEN msg ELSE Str("Unknown error")>>,
                        <<"statusCode", Num(500)>> >>)))
    ELSE Return(r, JSONstringify(result))

\* a normalization that takes a body with an error_msg for an error, whatever
\* the status
NormalizeByErrorMsg(r, response, result) ==
    IF ~ResponseOk(response) \/ HasProp(result, "error_msg")
    THEN IF result.t = "null"
         THEN Catch(r, Err("Cannot read properties of null (reading 'error_msg')"))
         ELSE LET msg == GetProp(result, "error_msg")
              IN  Return(r, JSONstringify(Obj(<<
                        <<"error", IF Truthy(msg) THEN msg ELSE Str("Unknown error")>>,
                        <<"statusCode", Num(response.status)>> >>)))
    ELSE Return(r, JSONstringify(result))

\* the statements after `await response.json()`, result being the parsed body
Normalize(r, response, result) ==
    IF ~ResponseOk(response)
    THEN IF result.t = "null"
         THEN Catch(r, Err("Cannot read properties of null (reading 'error_msg')"))
         ELSE LET msg == GetProp(result, "error_msg")
              IN  Return(r, JSONstringify(Obj(<<
                        <<"error", IF Truthy(msg) THEN msg ELSE Str("Unknown error")>>,
                        <<"statusCode", Num(response.status)>> >>)))
    ELSE Return(r, JSONstringify(result))

\* the SyntaxError of JSON.parse (V8, Node 18): a text that ends early, or the
\* first character when no value can start with it
JSONSyntaxError(text) ==
    LET i == SkipWs(text, 1)
    IN  IF i > Len(text) \/ Char(text, i) \in {"{", "[", "\""}
        THEN Err("Unexpected end of JSON input")
        ELSE Err("Unexpected token " \o Char(text, i) \o " in JSON at position "
                 \o NumberToString(i - 1))

\* a handler that takes a 2xx response without a JSON body for a success
OnBodyReadLenient(r) ==
    LET response == r.response[1]
        parsed   == JSONparse(response.body)
    IN  IF parsed.ok THEN Normalize(r, response, parsed.val)
        ELSE IF ResponseOk(response) THEN Return(r, "{\"success\":true}")
        ELSE Catch(r, JSONSyntaxError(response.body))

\* response.json() settled on a body that arrived whole: JSON.parse of its text
OnBodyRead(r) ==
    LET response == r.response[1]
        parsed   == JSONparse(response.body)
    IN  IF parsed.ok THEN Normalize(r, response, parsed.val)
        ELSE Catch(r, JSONSyntaxError(response.body))

\* response.json() rejected because the body stream failed
OnBodyFailed(r, error) == Catch(r, error)

(***************************************************************************)
(* The caller's arguments.  Every tool has a baseline call (each required  *)
(* key given, each optional key absent); an input departs from it in at    *)
(* most MaxVaried keys, which take the other sample values of their kind.  *)
(***************************************************************************)
MaxVaried == 1

\* an array every z.array(z.object(...)) of the record tools accepts
SampleObjects == Arr(<<Obj(<< <<"id", Str("f1")>>, <<"value", Str("x")>> >>)>>)

\* a value of createRole's globalPermissions (a partial object) and of z.any()
SampleObject == Obj(<< <<"share", Bool(TRUE)>> >>)

\* the `fields` of createRecord and updateRecord: z.array(z.object({id, value, type?}))
IsRecordFields(tool, entry) ==
    entry.key = "fields" /\ tool.name \in {"createRecord", "updateRecord"}

IsPathKey(tool, key) == \E i \in 1..Len(tool.path) : tool.path[i].arg /\ tool.path[i].s = key

BaseValue(tool, entry) ==
    IF entry.optional THEN Undefined
    ELSE IF IsPathKey(tool, entry.key)
    THEN (CASE entry.key = "worksheet_id" -> Str("w1")
            [] entry.key = "row_id"       -> Str("r1")
            [] OTHER                      -> Str("x1"))
    ELSE CASE entry.kind = "string"  -> Str("x")
           [] entry.kind = "int"     -> Num(1)
           [] entry.kind = "boolean" -> Bool(TRUE)
           [] entry.kind = "objects" ->
                  (IF IsRecordFields(tool, entry) THEN SampleObjects ELSE Arr(<<>>))
           [] OTHER                  -> SampleObject

SampleValues(tool, entry) ==
    IF IsPathKey(tool, entry.key)
    THEN {Str("a/b"), Str(".."), Str("w?pageSize=9"), Str("w#f")}
    ELSE CASE entry.kind = "string"  -> {Str(""), Str("a b&c")}
           [] entry.kind = "int"     -> {Num(0), Num(20)}
           [] entry.kind = "boolean" -> {Bool(TRUE), Bool(FALSE)}
           [] entry.kind = "enum"    -> {Str("json"), Str("md")}
           [] entry.kind = "strings" -> {Arr(<<>>), Arr(<<Str("u1"), Str("u2")>>)}
           [] entry.kind = "objects" ->
                  (IF IsRecordFields(tool, entry) THEN {SampleObjects, Arr(<<>>)}
                   ELSE {Arr(<<>>)})
           [] OTHER                  -> {SampleObject}

\* the argument object of JSON-RPC: the keys that carry a value, in schema order
RECURSIVE InputProps(_, _, _)
InputProps(tool, varied, i) ==
    IF i > Len(tool.schema) THEN <<>>
    ELSE LET entry == tool.schema[i]
             val   == IF entry.key \in DOMAIN varied THEN varied[entry.key]
                      ELSE BaseValue(tool, entry)
         IN  (IF val.t = "undefined" THEN <<>> ELSE << <<entry.key, val>> >>)
             \o InputProps(tool, varied, i + 1)

SchemaKeys(tool) == {tool.schema[i].key : i \in 1..Len(tool.schema)}

SchemaEntry(tool, key) ==
    tool.schema[CHOOSE i \in 1..Len(tool.schema) : tool.schema[i].key = key]

Variations(tool) ==
    UNION {
        {varied \in [keys -> UNION {SampleValues(tool, SchemaEntry(tool, k)) : k \in keys}] :
            \A k \in keys :
                /\ varied[k] \in SampleValues(tool, SchemaEntry(tool, k))
                /\ varied[k] # BaseValue(tool, SchemaEntry(tool, k))} :
        keys \in {ks \in SUBSET SchemaKeys(tool) : Cardinality(ks) <= MaxVaried} }

Inputs(tool) == {Obj(InputProps(tool, varied, 1)) : varied \in Variations(tool)}

AllInputs == UNION { {<<Tools[i].name, input>> : input \in Inputs(Tools[i])} :
                     i \in 1..Len(Tools) }

(***************************************************************************)
(* The server configuration (configSchema) and the remote side             *)
(***************************************************************************)
Credentials == {Undefined, Str(""), Str("AK-1")}

Signatures == {Undefined, Str(""), Str("SG-1")}

BaseUrls == {Str("https://api.mingdao.com"), Str(""), Str("api.mingdao.com")}

\* debug is read by no handler; it keeps its default
Configs == [debug : {Bool(FALSE)}, hapAppkey : Credentials, hapSign : Signatures,
            apiBaseUrl : BaseUrls]

Statuses == {200, 404}

ResponseBodies ==
    {"", "<html>Bad Gateway</html>", "null", "{}",
     "{\"error_msg\":\"not found\"}", "{\"error_msg\":\"\"}",
     "{ \"success\": true, \"error_code\": 1, \"data\": {\"rowid\": \"r1\"} }"}

\* what the remote may answer to a request: any sample status with any sample
\* body, or with the request's own body (an endpoint that echoes), or 204 with
\* no content, or 200 with a payload that has a statusCode field of its own
Responses(request) ==
    {[status |-> st, body |-> b] :
        st \in Statuses,
        b \in ResponseBodies \cup {request.body[k] : k \in 1..Len(request.body)}}
    \cup {[status |-> 204, body |-> ""], [status |-> 200, body |-> "{\"statusCode\":200}"]}

\* what a rejected promise of fetch or of response.json() may carry: an Error,
\* a thrown string, null, undefined
ThrownValues == {Err("fetch failed"), Str("ECONNREFUSED"), Null, Undefined}

\* what response.json() rejects with when the body stream breaks off
StreamErrors == {Err("terminated")}

(***************************************************************************)
(* State                                                                   *)
(***************************************************************************)
VARIABLES
    config,      \* the config object createServer was called with
    zodRelease,  \* the zod release of the build
    inv          \* the handler invocations in flight, by slot

vars == <<config, zodRelease, inv>>

Slots == {"a"}

\* createServer({ config }): the tools are registered, nothing is in flight
Init ==
    /\ config \in Configs
    /\ zodRelease \in ZodReleases
    /\ inv = [s \in Slots |-> Idle]

\* the caller invokes a tool; the handler runs to its first await or returns
Invoke(s) ==
    /\ inv[s].pc = "idle"
    /\ \E call \in AllInputs :
           inv' = [inv EXCEPT ![s] = HandlerStart(config, zodRelease, call[1], call[2])]
    /\ UNCHANGED <<config, zodRelease>>

\* the remote answers: fetch resolves with a Response
FetchResolves(s) ==
    /\ inv[s].pc = "fetching"
    /\ \E response \in Responses(inv[s].sent[Len(inv[s].sent)]) :
           inv' = [inv EXCEPT ![s] = OnFetchResolved(inv[s], response)]
    /\ UNCHANGED <<config, zodRelease>>

\* the connection fails: fetch rejects
FetchRejects(s) ==
    /\ inv[s].pc = "fetching"
    /\ \E error \in ThrownValues :
           inv' = [inv EXCEPT ![s] = OnFetchRejected(inv[s], error)]
    /\ UNCHANGED <<config, zodRelease>>

\* the continuation after `await response.json()` runs and leaves invocation s as r
BodyReadAs(s, r) ==
    /\ inv[s].pc = "reading"
    /\ inv' = [inv EXCEPT ![s] = r]
    /\ UNCHANGED <<config, zodRelease>>

\* response.json() settles with the body read
BodyRead(s) == BodyReadAs(s, OnBodyRead(inv[s]))

\* the body stream breaks: response.json() rejects
BodyFails(s) ==
    /\ inv[s].pc = "reading"
    /\ \E error \in StreamErrors :
           inv' = [inv EXCEPT ![s] = OnBodyFailed(inv[s], error)]
    /\ UNCHANGED <<config, zodRelease>>

\* a server whose handlers use up the signature: it is blanked once a call is over
CompleteConsumesSign(s) ==
    /\ inv[s].pc \in {"returned", "threw"}
    /\ inv' = [inv EXCEPT ![s] = Idle]
    /\ config' = [config EXCEPT !.hapSign = Str("")]
    /\ UNCHANGED zodRelease

\* the caller has the handler's result (or its rejection); the slot is free
Complete(s) ==
    /\ inv[s].pc \in {"returned", "threw"}
    /\ inv' = [inv EXCEPT ![s] = Idle]
    /\ UNCHANGED <<config, zodRelease>>

Step(s) ==
    \/ Invoke(s)
    \/ FetchResolves(s)
    \/ FetchRejects(s)
    \/ BodyRead(s)
    \/ BodyFails(s)
    \/ Complete(s)

\* one invocation at a time
Next == \E s \in Slots : Step(s)

Spec == Init /\ [][Next]_vars

(***************************************************************************)
(* Two invocations in flight at once.  The Node event loop runs a handler  *)
(* from one await to the next without interruption, so two invocations     *)
(* interleave at their awaits.  The handlers differ in method, in whether   *)
(* they build a URL object, send a body or have a defaulted argument, and  *)
(* in the number of placeholders and query arguments; the calls are, for   *)
(* the first tool of each such shape, its baseline call and the same call  *)
(* with another ai_description.  The remote answers 200 (echoing the       *)
(* request body, or {}) or 404, or the connection fails.                   *)
(***************************************************************************)
PairSlots == {"a", "b"}

OtherDescription == Str("Worksheet: Orders")

ToolShape(tool) ==
    <<tool.method, tool.useURL, tool.body.present,
      Cardinality({i \in 1..Len(tool.path) : tool.path[i].arg}),
      Len(tool.query) > 0,
      \E i \in 1..Len(tool.schema) : tool.schema[i].default # <<>> >>

PairTools ==
    {i \in 1..Len(Tools) :
        \A j \in 1..(i - 1) : ToolShape(Tools[j]) # ToolShape(Tools[i])}

PairCalls ==
    UNION { {<<Tools[i].name, Obj(InputProps(Tools[i], <<>>, 1))>>,
             <<Tools[i].name,
               Obj(InputProps(Tools[i], "ai_description" :> OtherDescription, 1))>>} :
            i \in PairTools }

PairConfigs ==
    {cfg \in Configs : /\ cfg.apiBaseUrl = Str("https://api.mingdao.com")
                       /\ cfg.hapAppkey = Str("AK-1")
                       /\ cfg.hapSign \in {Str("SG-1"), Str("")}}

PairResponses(request) ==
    {[status |-> 200, body |-> b] :
        b \in {"{}"} \cup {request.body[k] : k \in 1..Len(request.body)}}
    \cup {[status |-> 404, body |-> "{\"error_msg\":\"not found\"}"]}

PairInit ==
    /\ config \in PairConfigs
    /\ zodRelease \in ZodReleases
    /\ inv = [s \in PairSlots |-> Idle]

\* an invocation that stamps its request with an identifier of its own
PairInvokeStamped(s) ==
    /\ inv[s].pc = "idle"
    /\ \E call \in PairCalls :
           LET r == HandlerStart(config, zodRelease, call[1], call[2])
           IN  inv' = [inv EXCEPT ![s] =
                          [r EXCEPT !.sent =
                              [i \in 1..Len(r.sent) |->
                                  [r.sent[i] EXCEPT
                                      !.headers = Append(@, <<"X-Request-Id", s>>)]]]]
    /\ UNCHANGED <<config, zodRelease>>

\* the handler of a new invocation runs in slot s and leaves it as r
PairInvokeAs(s, r) ==
    /\ inv[s].pc = "idle"
    /\ inv' = [inv EXCEPT ![s] = r]
    /\ UNCHANGED <<config, zodRelease>>

\* the caller invokes a tool while the other invocation is wherever it is
PairInvoke(s) ==
    \E call \in PairCalls :
        PairInvokeAs(s, HandlerStart(config, zodRelease, call[1], call[2]))

\* a dispatcher that hands invocation s the answer to any request in flight
PairFetchResolvesAny(s) ==
    /\ inv[s].pc = "fetching"
    /\ \E t \in {u \in PairSlots : inv[u].sent # <<>>} :
           \E response \in PairResponses(inv[t].sent[1]) :
               inv' = [inv EXCEPT ![s] = OnFetchResolved(inv[s], response)]
    /\ UNCHANGED <<config, zodRelease>>

\* the remote answers the request of invocation s
PairFetchResolves(s) ==
    /\ inv[s].pc = "fetching"
    /\ \E response \in PairResponses(inv[s].sent[1]) :
           inv' = [inv EXCEPT ![s] = OnFetchResolved(inv[s], response)]
    /\ UNCHANGED <<config, zodRelease>>

\* the connection of invocation s fails
PairFetchRejects(s) ==
    /\ inv[s].pc = "fetching"
    /\ inv' = [inv EXCEPT ![s] = OnFetchRejected(inv[s], Err("fetch failed"))]
    /\ UNCHANGED <<config, zodRelease>>

PairNext ==
    \E s \in PairSlots :
        \/ PairInvoke(s)
        \/ PairFetchResolves(s)
        \/ PairFetchRejects(s)
        \/ BodyRead(s)
        \/ Complete(s)

PairSpec == PairInit /\ [][PairNext]_vars

(***************************************************************************)
(* Two servers side by side whose configurations differ in debug only:     *)
(* slot "a" is an invocation on the server configured with debug off, slot *)
(* "b" one on the server configured with debug on.                         *)
(***************************************************************************)
DebugConfig(s) == IF s = "a" THEN config ELSE [config EXCEPT !.debug = Bool(TRUE)]

\* the caller invokes a tool on the server of slot s
DebugInvoke(s) ==
    \E call \in PairCalls :
        PairInvokeAs(s, HandlerStart(DebugConfig(s), zodRelease, call[1], call[2]))

DebugNext ==
    \E s \in PairSlots :
        \/ DebugInvoke(s)
        \/ PairFetchResolves(s)
        \/ PairFetchRejects(s)
        \/ BodyRead(s)
        \/ Complete(s)

DebugSpec == PairInit /\ [][DebugNext]_vars

(***************************************************************************)
(* One invocation at a time against a remote that settles every HTTP call: *)
(* the baseline calls under a usable configuration, with every way the     *)
(* fetch and the body read can end.                                        *)
(***************************************************************************)
LiveInit ==
    /\ config \in PairConfigs
    /\ zodRelease \in ZodReleases
    /\ inv = [s \in Slots |-> Idle]

LiveNext ==
    \E s \in Slots :
        \/ PairInvoke(s)
        \/ PairFetchResolves(s)
        \/ FetchRejects(s)
        \/ BodyRead(s)
        \/ BodyFails(s)
        \/ Complete(s)

\* the remote settles every HTTP call (fetch resolves or rejects, the body read
\* ends or fails), and the event loop then runs the handler's continuation
RemoteSettles ==
    \A s \in Slots :
        /\ WF_vars(PairFetchResolves(s) \/ FetchRejects(s))
        /\ WF_vars(BodyFails(s) \/ BodyRead(s))

LiveSpec == LiveInit /\ [][LiveNext]_vars /\ RemoteSettles

(***************************************************************************)
(* Properties                                                              *)
(***************************************************************************)
\* the text of the one content item of a returned envelope
ResultText(r) == r.result[1].content[1].text

Settled(r) == r.pc \in {"returned", "threw"}

\* the arguments the handler of invocation r destructures
HandlerArgs(r) == SchemaParse(Tool(r.tool), r.input, zodRelease)

\* C1: with config.hapAppkey or config.hapSign empty or absent, every invocation
\* of every tool, whatever its arguments, returns the fixed missing-credentials
\* envelope, and no HTTP request is issued at any point of it.
C1_MissingCredentialsShortCircuit ==
    \A s \in Slots :
        (/\ inv[s].pc # "idle"
         /\ \/ config.hapAppkey \in {Undefined, Str("")}
            \/ config.hapSign \in {Undefined, Str("")})
        => /\ inv[s].pc = "returned"
           /\ inv[s].sent = <<>>
           /\ inv[s].result =
                  << [content |-> << [type |-> "text",
                      text |-> "Error: HAP-Appkey or HAP-Sign missing in server config."] >>] >>

C1_Witness ==
    /\ config.hapAppkey = Str("AK-1")
    /\ config.hapSign = Str("")
    /\ inv["a"].tool = "getRecordRelations"
    /\ inv["a"].pc = "returned"
    /\ inv["a"].sent = <<>>

\* C2: no invocation raises a fault to its caller: whatever the HTTP call does
\* (rejected fetch, any thrown value, non-2xx status, malformed body), the
\* handler completes by returning an envelope.
C2_NeverThrows == \A s \in Slots : inv[s].pc # "threw"

\* C3 as stated: an invocation with both credentials present issues exactly one
\* HTTP request, and no invocation issues more than one.
C3_ExactlyOneRequest ==
    \A s \in Slots :
        /\ Len(inv[s].sent) <= 1
        /\ (inv[s].pc # "idle" /\ Truthy(config.hapAppkey) /\ Truthy(config.hapSign))
           => Len(inv[s].sent) = 1

\* C3: no invocation issues more than one HTTP request, whatever the outcome of
\* the first; an invocation with both credentials present issues exactly one
\* when apiBaseUrl followed by the endpoint is an absolute URL, and none when
\* it is not (the URL cannot be parsed, and the handler returns from its catch
\* block).
C3_AtMostOneRequest ==
    \A s \in Slots :
        LET r       == inv[s]
            fullUrl == FullUrl(config, Tool(r.tool), HandlerArgs(r))
        IN  /\ Len(r.sent) <= 1
            /\ (r.pc # "idle" /\ Truthy(config.hapAppkey) /\ Truthy(config.hapSign))
               => IF URLparse(fullUrl).ok
                  THEN Len(r.sent) = 1
                  ELSE r.sent = <<>> /\ r.pc = "returned"

C3_Witness ==
    /\ inv["a"].tool = "createRecord"
    /\ inv["a"].pc = "returned"
    /\ inv["a"].response # <<>>
    /\ inv["a"].response[1].status = 404
    /\ Len(inv["a"].sent) = 1

\* the HTTP call of invocation r completed with a status outside 2xx
RemoteError(r) ==
    /\ Settled(r)
    /\ r.response # <<>>
    /\ r.response[1].status \notin 200..299

\* the text parses as a JSON object with an `error` string and a numeric
\* statusCode equal to status
IsErrorObject(text, status) ==
    LET parsed == JSONparse(text)
    IN  /\ parsed.ok
        /\ parsed.val.t = "object"
        /\ GetProp(parsed.val, "error").t = "string"
        /\ GetProp(parsed.val, "statusCode") = Num(status)

\* C4 as stated: whenever the HTTP call completes with a status outside 2xx,
\* the envelope text is the JSON encoding of {error, statusCode} with
\* statusCode the HTTP status code.
C4_NonOkGivesStatusCode ==
    \A s \in Slots :
        RemoteError(inv[s])
        => /\ inv[s].pc = "returned"
           /\ IsErrorObject(ResultText(inv[s]), inv[s].response[1].status)

\* C4: whenever the HTTP call completes with a status outside 2xx and
\* response.json() yields a value other than null (the body arrives whole and
\* is JSON), the envelope text is the JSON encoding of {error, statusCode}:
\* error is the body's error_msg when that is truthy and "Unknown error" when
\* it is not, statusCode is the HTTP status code.  deleteWorksheet of "w1"
\* against a 404 with body {"error_msg": "not found"} yields exactly
\* {"error":"not found","statusCode":404}.
C4_NonOkJsonBodyGivesStatusCode ==
    \A s \in Slots :
        LET r      == inv[s]
            parsed == JSONparse(r.response[1].body)
            msg    == GetProp(parsed.val, "error_msg")
        IN  (/\ RemoteError(r)
             /\ r.caught = <<>>
             /\ parsed.ok
             /\ parsed.val.t # "null")
            => /\ r.pc = "returned"
               /\ ResultText(r) =
                      JSONstringify(Obj(<<
                          <<"error", IF Truthy(msg) THEN msg ELSE Str("Unknown error")>>,
                          <<"statusCode", Num(r.response[1].status)>> >>))
               /\ (/\ r.tool = "deleteWorksheet"
                   /\ r.response[1] = [status |-> 404, body |-> "{\"error_msg\":\"not found\"}"])
                  => ResultText(r) = "{\"error\":\"not found\",\"statusCode\":404}"

C4_Witness ==
    /\ inv["a"].tool = "deleteWorksheet"
    /\ inv["a"].input = Obj(<< <<"worksheet_id", Str("w1")>>, <<"ai_description", Str("x")>> >>)
    /\ inv["a"].pc = "returned"
    /\ inv["a"].response = << [status |-> 404, body |-> "{\"error_msg\":\"not found\"}"] >>
    /\ ResultText(inv["a"]) = "{\"error\":\"not found\",\"statusCode\":404}"

\* C5: when the HTTP call throws an exception (the connection is refused), the
\* tool returns an envelope whose text parses to an object whose `error` field
\* starts with "Error calling external API: " followed by the exception's
\* message, and which has no statusCode field.
C5_TransportErrorIsErrorObject ==
    \A s \in Slots :
        LET r      == inv[s]
            parsed == JSONparse(ResultText(r))
        IN  (/\ r.pc = "returned"
             /\ r.sent # <<>>
             /\ r.response = <<>>
             /\ r.caught # <<>>
             /\ r.caught[1].t = "error")
            => /\ parsed.ok
               /\ GetProp(parsed.val, "error") =
                      Str("Error calling external API: " \o r.caught[1].v)
               /\ ~HasProp(parsed.val, "statusCode")

\* C6: every returned value has the same shape on every path: content is a
\* list of exactly one item of type "text" whose text is a JSON document,
\* either the success payload or an object {error: string, statusCode?}.
C6_EveryTextIsJson ==
    \A s \in Slots :
        inv[s].pc = "returned"
        => /\ Len(inv[s].result[1].content) = 1
           /\ inv[s].result[1].content[1].type = "text"
           /\ JSONparse(ResultText(inv[s])).ok

\* C7: whenever the HTTP call completes with a 2xx status and a JSON body, the
\* envelope text is the JSON re-encoding of the whole parsed body, whatever its
\* content: parsing the text gives back what parsing the body gave, a body
\* with an error_msg field included.
C7_OkBodyReturnedVerbatim ==
    \A s \in Slots :
        LET r      == inv[s]
            parsed == JSONparse(r.response[1].body)
        IN  (/\ Settled(r)
             /\ r.response # <<>>
             /\ r.response[1].status \in 200..299
             /\ r.caught = <<>>
             /\ parsed.ok)
            => /\ r.pc = "returned"
               /\ ResultText(r) = JSONstringify(parsed.val)
               /\ JSONparse(ResultText(r)) = parsed

C7_Witness ==
    /\ inv["a"].tool = "updateWorksheet"
    /\ inv["a"].pc = "returned"
    /\ inv["a"].response = << [status |-> 200, body |-> "{\"error_msg\":\"not found\"}"] >>
    /\ ResultText(inv["a"]) = "{\"error_msg\":\"not found\"}"

\* C8: against an endpoint that echoes the JSON request body with HTTP 200,
\* createRecord of {worksheet_id: "w1", fields: [{id: "f1", value: "x"}]} with
\* triggerWorkflow omitted returns a text that parses to
\* {fields: [{id: "f1", value: "x"}], triggerWorkflow: true}: the request body
\* holds exactly fields and triggerWorkflow, with the default true applied.
C8_CreateRecordEchoAppliesDefault ==
    \A s \in Slots :
        LET r == inv[s]
        IN  (/\ r.tool = "createRecord"
             /\ r.input = Obj(<< <<"worksheet_id", Str("w1")>>,
                                 <<"fields", Arr(<<Obj(<< <<"id", Str("f1")>>,
                                                          <<"value", Str("x")>> >>)>>)>>,
                                 <<"ai_description", Str("x")>> >>)
             /\ r.pc = "returned"
             /\ r.sent # <<>>
             /\ r.response = << [status |-> 200, body |-> r.sent[1].body[1]] >>)
            => /\ JSONparse(ResultText(r)).ok
               /\ JSONparse(ResultText(r)).val =
                      Obj(<< <<"fields", Arr(<<Obj(<< <<"id", Str("f1")>>,
                                                      <<"value", Str("x")>> >>)>>)>>,
                             <<"triggerWorkflow", Bool(TRUE)>> >>)

\* C9: every outbound HTTP request carries exactly three headers: Content-Type
\* application/json, HAP-Appkey with the value of config.hapAppkey and HAP-Sign
\* with the value of config.hapSign, whatever the tool and its arguments.
C9_HeadersFromConfig ==
    \A s \in Slots :
        \A i \in 1..Len(inv[s].sent) :
            inv[s].sent[i].headers =
                << <<"Content-Type", "application/json">>,
                   <<"HAP-Appkey", config.hapAppkey.v>>,
                   <<"HAP-Sign", config.hapSign.v>> >>

C9_Witness ==
    /\ inv["a"].tool = "removeMemberFromRole"
    /\ inv["a"].pc = "fetching"
    /\ Len(inv["a"].sent) = 1
    /\ inv["a"].sent[1].headers[2] = <<"HAP-Appkey", "AK-1">>
    /\ inv["a"].sent[1].headers[3] = <<"HAP-Sign", "SG-1">>

\* the positions of the parameters called name in a list of <<name, value>>
ParamPositions(params, name) == {k \in 1..Len(params) : params[k][1] = name}

\* C10 as stated: for every tool that sends query parameters and every
\* argument assignment, a named query argument appears in the request URL if
\* and only if its value is not undefined, its value being the plain string
\* form of the argument.
C10_QueryArgAppearsIffDefined ==
    \A s \in Slots :
        LET r    == inv[s]
            tool == Tool(r.tool)
        IN  (r.sent # <<>> /\ tool.useURL)
            => LET params == URLparse(r.sent[1].url).searchParams
               IN  \A i \in 1..Len(tool.query) :
                       LET key == tool.query[i].key
                           val == GetProp(HandlerArgs(r), key)
                       IN  /\ (ParamPositions(params, key) # {}) <=> (val.t # "undefined")
                           /\ \A k \in ParamPositions(params, key) :
                                  params[k][2] = String(val)

\* the parameters a handler is to append: for each query argument in the
\* handler's order, nothing when it is undefined, one parameter per element
\* when it is an array, and else one parameter with its string form
RECURSIVE AppendedParams(_, _, _)
AppendedParams(query, args, i) ==
    IF i > Len(query) THEN <<>>
    ELSE LET key == query[i].key
             val == GetProp(args, key)
         IN  (CASE val.t = "undefined" -> <<>>
                [] val.t = "array"     -> [k \in 1..Len(val.v) |-> <<key, String(val.v[k])>>]
                [] OTHER               -> << <<key, String(val)>> >>)
             \o AppendedParams(query, args, i + 1)

\* C10: for every tool that sends query parameters and every argument
\* assignment, the query of the request URL is the query that apiBaseUrl and
\* the filled-in path already carry, followed by the parameters the handler
\* appends: in the handler's fixed order, one parameter per query argument
\* that is not undefined, holding its plain string form ("false", "true", "0",
\* an empty value for ""), and for the array operatorIds one parameter per
\* element (none for an empty array).  The handler appends nothing for an
\* undefined argument.
C10_QueryIsAppendedParams ==
    \A s \in Slots :
        LET r    == inv[s]
            tool == Tool(r.tool)
            args == HandlerArgs(r)
        IN  (r.sent # <<>> /\ tool.useURL)
            => URLparse(r.sent[1].url).searchParams
                   = URLparse(FullUrl(config, tool, args)).searchParams
                     \o AppendedParams(tool.query, args, 1)

C10_Witness ==
    /\ inv["a"].tool = "getRecordDetails"
    /\ GetProp(inv["a"].input, "includeSystemFields") = Bool(FALSE)
    /\ inv["a"].pc = "fetching"
    /\ inv["a"].sent[1].url =
           "https://api.mingdao.com/v3/app/worksheets/w1/rows/r1?includeSystemFields=false"

\* the tool's endpoint has a ${...} placeholder
HasPlaceholder(tool) == \E i \in 1..Len(tool.path) : tool.path[i].arg

\* the path template with each placeholder replaced by the string form of the
\* argument of the same name
RECURSIVE FilledTemplate(_, _, _)
FilledTemplate(path, args, i) ==
    IF i > Len(path) THEN ""
    ELSE LET piece == path[i]
         IN  (IF piece.arg THEN String(GetProp(args, piece.s)) ELSE piece.s)
             \o FilledTemplate(path, args, i + 1)

\* a URL up to its query string
WithoutQuery(url) == SubSeq(url, 1, FindChar(url, {"?"}, 1) - 1)

\* a string of letters and digits only
PlainString(str) ==
    \A i \in 1..Len(str) : Char(str, i) \in Letters \/ IsDigit(Char(str, i))

\* every path argument is a string of letters and digits
PlainPathArgs(tool, args) ==
    \A i \in 1..Len(tool.path) :
        tool.path[i].arg =>
            /\ GetProp(args, tool.path[i].s).t = "string"
            /\ PlainString(GetProp(args, tool.path[i].s).v)

WithoutProp(obj, key) == Obj(SelectSeq(obj.v, LAMBDA p : p[1] # key))

\* what the remote did to invocation r: the response it gave, or the value
\* fetch rejected with
RemoteOf(r) ==
    [response |-> r.response,
     rejected |-> IF r.response = <<>> /\ r.sent # <<>> THEN r.caught ELSE <<>>]

\* the arguments a tool puts in its path, its query string and its body
PathKeys(tool) == {tool.path[i].s : i \in {k \in 1..Len(tool.path) : tool.path[k].arg}}

QueryKeys(tool) == {tool.query[i].key : i \in 1..Len(tool.query)}

BodyKeys(tool) ==
    IF tool.body.present
    THEN {tool.body.props[i][2] : i \in 1..Len(tool.body.props)}
    ELSE {}

\* C12: ai_description has no functional effect.  No tool puts it in its path,
\* its query string or its body; two invocations of the same tool that differ
\* only in ai_description issue the same request (method, URL, headers, body)
\* and, when the remote does the same to both, end the same way with the same
\* envelope; neither the name ai_description nor its value appears in the URL,
\* the headers or the body of a request that goes out.
C12_DescriptionHasNoEffect ==
    /\ \A i \in 1..Len(Tools) :
           "ai_description" \notin PathKeys(Tools[i]) \cup QueryKeys(Tools[i])
                                   \cup BodyKeys(Tools[i])
    /\ \A s \in DOMAIN inv, t \in DOMAIN inv :
           LET a == inv[s]
               b == inv[t]
           IN  (/\ a.pc # "idle" /\ b.pc # "idle"
                /\ a.tool = b.tool
                /\ WithoutProp(a.input, "ai_description")
                       = WithoutProp(b.input, "ai_description"))
               => /\ a.sent = b.sent
                  /\ (Settled(a) /\ Settled(b) /\ RemoteOf(a) = RemoteOf(b))
                     => (a.pc = b.pc /\ a.result = b.result /\ a.thrown = b.thrown)
    /\ \A s \in DOMAIN inv :
           inv[s].pc = "fetching" =>
               LET request == inv[s].sent[1]
               IN  /\ ~Includes(request.url, "ai_description")
                   /\ ~Includes(request.url, "Orders")
                   /\ \A k \in 1..Len(request.body) :
                          /\ ~Includes(request.body[k], "ai_description")
                          /\ ~Includes(request.body[k], "Orders")
                   /\ \A k \in 1..Len(request.headers) :
                          /\ request.headers[k][1] # "ai_description"
                          /\ ~Includes(request.headers[k][2], "Orders")

C12_Witness ==
    /\ inv["a"].tool = "createRecord"
    /\ inv["b"].tool = "createRecord"
    /\ GetProp(inv["a"].input, "ai_description") = Str("x")
    /\ GetProp(inv["b"].input, "ai_description") = OtherDescription
    /\ inv["a"].pc = "returned"
    /\ inv["b"].pc = "returned"
    /\ inv["a"].response # <<>>
    /\ inv["a"].response = inv["b"].response
    /\ inv["a"].sent = inv["b"].sent
    /\ inv["a"].result = inv["b"].result

WorkflowRequests ==
    {<<s, inv[s].sent[1]>> : s \in {t \in DOMAIN inv :
                                       inv[t].tool = "triggerWorkflow" /\ inv[t].sent # <<>>}}

\* C14 as stated: triggerWorkflow sends a POST to
\* /v3/app/workflow/hooks/{process_id} whose body is a JSON object with exactly
\* one key, the literal seven characters {inputs}, holding the inputs argument.
C14_BodyHasExactlyTheBracedKey ==
    \A sr \in WorkflowRequests :
        LET req    == sr[2]
            parsed == JSONparse(req.body[1])
        IN  /\ req.method = "POST"
            /\ Len(req.body) = 1
            /\ parsed.ok
            /\ parsed.val.t = "object"
            /\ Len(parsed.val.v) = 1
            /\ parsed.val.v[1][1] = "{inputs}"
            /\ parsed.val.v[1][2] = GetProp(inv[sr[1]].input, "inputs")

\* C14: triggerWorkflow sends a POST to /v3/app/workflow/hooks/{process_id}.
\* Its body is JSON.stringify of an object whose only property is named by the
\* literal seven characters {inputs} and holds the inputs argument: an object
\* with exactly that one key when inputs is given, and the empty object {} when
\* inputs is omitted.  The body never has a key named inputs and never carries
\* process_id.
C14_BodyIsBracedKeyOrEmpty ==
    \A sr \in WorkflowRequests :
        LET req    == sr[2]
            input  == inv[sr[1]].input
            inputs == GetProp(input, "inputs")
            parsed == JSONparse(req.body[1])
            id     == GetProp(input, "process_id")
        IN  /\ req.method = "POST"
            /\ Len(req.body) = 1
            /\ PlainString(id.v) =>
                   req.url = config.apiBaseUrl.v \o "/v3/app/workflow/hooks/" \o id.v
            /\ parsed.ok
            /\ parsed.val = (IF HasProp(input, "inputs")
                             THEN Obj(<< <<"{inputs}", inputs>> >>)
                             ELSE Obj(<<>>))
            /\ ~HasProp(parsed.val, "inputs")
            /\ ~HasProp(parsed.val, "process_id")
            /\ ~Includes(req.body[1], "x1")

C14_Witness ==
    /\ inv["a"].tool = "triggerWorkflow"
    /\ inv["a"].pc = "fetching"
    /\ inv["a"].sent[1].url = "https://api.mingdao.com/v3/app/workflow/hooks/x1"
    /\ inv["a"].sent[1].body = <<"{\"{inputs}\":{\"share\":true}}">>

\* the keys of the JSON object a request body holds
BodyObjectKeys(req) ==
    IF req.body = <<>> THEN {}
    ELSE LET parsed == JSONparse(req.body[1])
         IN  {parsed.val.v[i][1] : i \in 1..Len(parsed.val.v)}

\* C15: descriptor invariant.  Over all registered tools: no tool has both a
\* query string and a body (so no argument is sent in both); no GET tool has a
\* body; every path placeholder is a key of the tool's argument schema; and no
\* argument used as a path placeholder is also a body or query argument (the
\* table is fixed at registration, so it is examined where every invocation is
\* idle).  Every request follows its descriptor as it goes out: it has the tool's method, a
\* GET request has no body, and a body holds no key outside the tool's body
\* keys and none of the tool's path arguments.
C15_DescriptorInvariant ==
    /\ \A i \in {j \in 1..Len(Tools) : \A s \in DOMAIN inv : inv[s].pc = "idle"} :
           LET tool == Tools[i]
           IN  /\ QueryKeys(tool) \cap BodyKeys(tool) = {}
               /\ ~(Len(tool.query) > 0 /\ tool.body.present)
               /\ tool.method = "GET" => ~tool.body.present
               /\ PathKeys(tool) \subseteq SchemaKeys(tool)
               /\ PathKeys(tool) \cap (QueryKeys(tool) \cup BodyKeys(tool)) = {}
    /\ \A s \in {t \in DOMAIN inv : inv[t].pc = "fetching"} :
           \A k \in 1..Len(inv[s].sent) :
               LET req  == inv[s].sent[k]
                   tool == Tool(inv[s].tool)
               IN  /\ req.method = tool.method
                   /\ req.method = "GET" => req.body = <<>>
                   /\ BodyObjectKeys(req) \cap PathKeys(tool) = {}
                   /\ tool.query # <<>> => req.body = <<>>

C15_Witness ==
    /\ inv["a"].tool = "deleteRecord"
    /\ inv["a"].pc = "fetching"
    /\ inv["a"].sent[1].method = "DELETE"
    /\ inv["a"].sent[1].url = "https://api.mingdao.com/v3/app/worksheets/w1/rows/r1"
    /\ inv["a"].sent[1].body = <<"{\"triggerWorkflow\":true,\"permanent\":false}">>

\* what an invocation with r's tool and arguments can have come to under
\* configuration cfg when the remote did to it what r records (the response it
\* got, the error its fetch or its body read was rejected with)
OwnOutcomes(cfg, release, r) ==
    LET start == HandlerStart(cfg, release, r.tool, r.input)
    IN  IF start.pc # "fetching" THEN {start}
        ELSE IF r.response = <<>>
        THEN {start} \cup {OnFetchRejected(start, r.caught[k]) : k \in 1..Len(r.caught)}
        ELSE LET read == OnFetchResolved(start, r.response[1])
             IN  {read, OnBodyRead(read)}
                 \cup {OnBodyFailed(read, r.caught[k]) : k \in 1..Len(r.caught)}

\* C16: statelessness.  No step of any invocation, successful or failed,
\* changes the server configuration, and after every step each invocation is
\* where its own tool, its own arguments, the configuration and what the remote
\* did to it put it: nothing is left of the invocations that came before.
C16_Stateless ==
    [][/\ config' = config
       /\ \A s \in DOMAIN inv :
              IF inv'[s].pc = "idle" THEN inv'[s] = Idle
              ELSE inv'[s] \in OwnOutcomes(config', zodRelease', inv'[s])]_vars

C16_Witness ==
    /\ inv["a"].tool = "createRole"
    /\ inv["a"].pc = "returned"
    /\ inv["a"].sent # <<>>
    /\ inv["a"].caught = <<Err("fetch failed")>>
    /\ config.hapSign = Str("SG-1")

\* the calls an idle slot is shown to accept
FirstCalls ==
    {call \in PairCalls : call[1] \in {"createRecord", "deleteRecord", "getRecordLogs"}}

\* C17: concurrent invocations are independent.  With two invocations in
\* flight and their HTTP completions interleaved in every order, each
\* invocation holds a response to its own request only and is where its own
\* tool, arguments and response put it; and whatever the other invocation is
\* doing, an idle slot can start an invocation, a waiting fetch can resolve or
\* reject, a body read can finish and a settled invocation can be handed back.
C17_InvocationsIndependent ==
    \A s \in PairSlots :
        LET r == inv[s]
        IN  /\ r.response # <<>> => r.response[1] \in PairResponses(r.sent[1])
            /\ r.pc # "idle" => r \in OwnOutcomes(config, zodRelease, r)
            /\ r.pc = "idle" =>
                   \A call \in FirstCalls :
                       \A start \in {HandlerStart(config, zodRelease, call[1], call[2])} :
                           ENABLED PairInvokeAs(s, start)
            /\ r.pc = "fetching" => ENABLED PairFetchResolves(s) /\ ENABLED PairFetchRejects(s)
            /\ r.pc = "reading" => \A read \in {OnBodyRead(r)} : ENABLED BodyReadAs(s, read)
            /\ Settled(r) => ENABLED Complete(s)

C17_Witness ==
    /\ inv["a"].tool = "deleteRecord"
    /\ inv["a"].pc = "fetching"
    /\ inv["b"].tool = "createRecord"
    /\ inv["b"].pc = "returned"
    /\ inv["b"].response = << [status |-> 200, body |-> inv["b"].sent[1].body[1]] >>
    /\ ResultText(inv["b"]) = inv["b"].sent[1].body[1]

\* the envelope of invocation r carries a statusCode field
CarriesStatusCode(r) ==
    /\ r.pc = "returned"
    /\ LET parsed == JSONparse(ResultText(r))
       IN  parsed.ok /\ HasProp(parsed.val, "statusCode")

\* C18 as stated: an envelope carries a statusCode field if and only if the
\* HTTP call completed with a status outside 2xx, whatever the body.
C18_StatusCodeIffNonOk ==
    \A s \in DOMAIN inv :
        Settled(inv[s]) => (CarriesStatusCode(inv[s]) <=> RemoteError(inv[s]))

\* C18: an envelope carries a statusCode field in two cases only.  The HTTP
\* call completed with a status outside 2xx and its body was read whole as a
\* JSON value other than null: the field is the HTTP status.  Or the call
\* completed with a 2xx status and the remote's own JSON payload has a
\* statusCode field, which comes back verbatim.  A non-2xx response whose body
\* is empty, is not JSON, is null or breaks off is reported like a transport
\* error, without statusCode; configuration, transport and parse errors never
\* carry one.
C18_StatusCodeIffNonOkJsonBody ==
    \A s \in DOMAIN inv :
        LET r      == inv[s]
            parsed == JSONparse(r.response[1].body)
            whole  == r.response # <<>> /\ r.caught = <<>> /\ parsed.ok
        IN  Settled(r)
            => /\ CarriesStatusCode(r)
                  <=> \/ RemoteError(r) /\ whole /\ parsed.val.t # "null"
                      \/ /\ whole
                         /\ ResponseOk(r.response[1])
                         /\ HasProp(parsed.val, "statusCode")
               /\ (CarriesStatusCode(r) /\ RemoteError(r))
                  => GetProp(JSONparse(ResultText(r)).val, "statusCode")
                         = Num(r.response[1].status)
               /\ (r.sent = <<>> \/ r.response = <<>>) => ~CarriesStatusCode(r)

C18_Witness ==
    /\ inv["a"].tool = "deleteOptionset"
    /\ inv["a"].pc = "returned"
    /\ inv["a"].response = << [status |-> 404, body |-> "<html>Bad Gateway</html>"] >>
    /\ ~CarriesStatusCode(inv["a"])

\* C19: every invocation whose HTTP call settles eventually returns an
\* envelope: once the request is out, and given that the remote settles the
\* fetch and the body read, the handler gets to its return.
C19_SettledCallReturns ==
    \A s \in Slots : (inv[s].pc = "fetching") ~> (inv[s].pc = "returned")

\* the tool names the specification lists
ListedToolNames ==
    {"postCreateOptionset", "createRecord", "createRole", "createWorksheet",
     "deleteOptionset", "deleteRecord", "deleteRole", "deleteWorksheet",
     "findDepartment", "findMember", "getAppInfo", "getOptionsetList",
     "getRecordDetails", "getRecordDiscussions", "getRecordList", "getRecordLogs",
     "getRecordPivotData", "getRecordRelations", "getRecordShareLink", "getRegions",
     "getRoleDetails", "getRoleList", "getWorkflowDetails", "getWorkflowList",
     "getWorksheetsList", "getWorksheetStructure", "leaveAllRoles",
     "removeMemberFromRole", "triggerWorkflow", "updateOptionset", "updateRecord",
     "updateWorksheet"}

\* C20: createServer registers exactly the 32 listed tool names, each exactly
\* once: the table has 32 entries, their names are pairwise distinct, every
\* listed name is registered and no other name is; and every invocation runs
\* the one handler registered under a listed name.
C20_ExactlyTheListedTools ==
    /\ Len(Tools) = 32
    /\ Cardinality(ListedToolNames) = 32
    /\ Cardinality(ToolNames) = Len(Tools)
    /\ ToolNames = ListedToolNames
    /\ \A s \in DOMAIN inv :
           inv[s].pc # "idle"
           => /\ inv[s].tool \in ListedToolNames
              /\ Cardinality({i \in 1..Len(Tools) : Tools[i].name = inv[s].tool}) = 1

C20_Witness ==
    /\ inv["a"].tool = "updateWorksheet"
    /\ inv["a"].pc = "returned"
    /\ inv["a"].sent # <<>>
    /\ inv["a"].sent[1].method = Tool("updateWorksheet").method
    /\ inv["a"].response # <<>>
    /\ inv["a"].response[1].status = 200

\* C21: in a remote-error envelope (non-2xx status, body read whole as a JSON
\* value other than null) the error field is the body's error_msg whenever the
\* body has that field, an empty or otherwise falsy one included, and is
\* "Unknown error" only when the body has no such field.
C21_ErrorIsErrorMsgWhenPresent ==
    \A s \in DOMAIN inv :
        LET r      == inv[s]
            parsed == JSONparse(r.response[1].body)
            text   == JSONparse(ResultText(r))
        IN  (/\ RemoteError(r)
             /\ r.caught = <<>>
             /\ parsed.ok
             /\ parsed.val.t # "null")
            => /\ r.pc = "returned"
               /\ text.ok
               /\ GetProp(text.val, "error") =
                      (IF HasProp(parsed.val, "error_msg")
                       THEN GetProp(parsed.val, "error_msg")
                       ELSE Str("Unknown error"))

\* C22: when the HTTP call completes with a 2xx status and a body that is
\* empty or not JSON (204 No Content on a DELETE tool, say), the invocation
\* returns the "Error calling external API: " envelope with the parser's
\* message, never a success envelope, although the remote operation succeeded.
C22_OkWithoutJsonIsReportedAsError ==
    \A s \in DOMAIN inv :
        LET r == inv[s]
        IN  (/\ Settled(r)
             /\ r.response # <<>>
             /\ ResponseOk(r.response[1])
             /\ ~JSONparse(r.response[1].body).ok)
            => /\ r.pc = "returned"
               /\ r.caught # <<>>
               /\ ResultText(r) = "Error calling external API: " \o r.caught[1].v
               /\ r.caught[1] \in {JSONSyntaxError(r.response[1].body)} \cup StreamErrors
               /\ ~JSONparse(ResultText(r)).ok

C22_Witness ==
    /\ inv["a"].tool = "deleteRole"
    /\ inv["a"].pc = "returned"
    /\ inv["a"].response = << [status |-> 204, body |-> ""] >>
    /\ ResultText(inv["a"]) = "Error calling external API: Unexpected end of JSON input"

\* the configuration lacks a credential
LacksCredential ==
    config.hapAppkey \in {Undefined, Str("")} \/ config.hapSign \in {Undefined, Str("")}

\* config.apiBaseUrl is a usable absolute URL
UsableBaseUrl == config.apiBaseUrl = Str("https://api.mingdao.com")

\* C23: the credential check is the only check made before dispatch and it
\* comes first.  With a credential missing and an apiBaseUrl that is empty or
\* malformed the result is the missing-credentials envelope.  With both
\* credentials present and an apiBaseUrl that is empty or not an absolute URL,
\* every tool, those that build a URL object and those that hand the string to
\* fetch alike, returns an "Error calling external API: " envelope and no
\* request reaches the network.  With both present and a usable apiBaseUrl
\* nothing else stops the call: the request goes out.
C23_CredentialCheckComesFirst ==
    \A s \in DOMAIN inv :
        LET r == inv[s]
        IN  r.pc # "idle"
            => /\ (LacksCredential /\ ~UsableBaseUrl)
                  => /\ r.pc = "returned"
                     /\ r.sent = <<>>
                     /\ ResultText(r) = "Error: HAP-Appkey or HAP-Sign missing in server config."
               /\ (~LacksCredential /\ ~UsableBaseUrl)
                  => /\ r.pc = "returned"
                     /\ r.sent = <<>>
                     /\ r.response = <<>>
                     /\ StartsWith(ResultText(r), "Error calling external API: ")
                     /\ ResultText(r) =
                            (IF Tool(r.tool).useURL
                             THEN "Error calling external API: Invalid URL"
                             ELSE "Error calling external API: Failed to parse URL from "
                                  \o FullUrl(config, Tool(r.tool), HandlerArgs(r)))
               /\ (~LacksCredential /\ UsableBaseUrl) => Len(r.sent) = 1

C23_Witness ==
    /\ inv["a"].tool = "getRoleList"
    /\ inv["a"].pc = "returned"
    /\ config.hapAppkey = Str("AK-1")
    /\ config.hapSign = Str("SG-1")
    /\ config.apiBaseUrl = Str("")
    /\ inv["a"].sent = <<>>
    /\ StartsWith(ResultText(inv["a"]), "Error calling external API: ")

\* the parameters getRecordLogs adds for its scalar arguments, from the i-th on
RECURSIVE LogsScalarParams(_, _)
LogsScalarParams(args, i) ==
    LET keys == <<"field", "pageSize", "pageIndex", "startDate", "endDate">>
    IN  IF i > Len(keys) THEN <<>>
        ELSE (IF GetProp(args, keys[i]).t = "undefined" THEN <<>>
              ELSE << <<keys[i], String(GetProp(args, keys[i]))>> >>)
             \o LogsScalarParams(args, i + 1)

\* the object with its properties in the opposite order
ReversedProps(obj) == Obj([i \in 1..Len(obj.v) |-> obj.v[Len(obj.v) + 1 - i]])

RECURSIVE SuppliedMembers(_, _, _, _)
SuppliedMembers(tool, args, name(_), k) ==
    IF k > Len(tool.body.props) THEN <<>>
    ELSE LET val == GetProp(args, tool.body.props[k][2])
         IN  (IF val.t = "undefined" THEN <<>> ELSE << <<name(k), val>> >>)
             \o SuppliedMembers(tool, args, name, k + 1)

\* the requests that carry a body, with their invocations
BodyRequests ==
    {s \in DOMAIN inv : inv[s].pc = "fetching" /\ inv[s].sent[1].body # <<>>}

\* C25 as stated: the body of every tool that sends one contains exactly the
\* tool's body argument names that have a defined value, under those names.
C25_BodyKeysAreArgumentNames ==
    \A s \in BodyRequests :
        LET tool == Tool(inv[s].tool)
            args == HandlerArgs(inv[s])
        IN  JSONparse(inv[s].sent[1].body[1]).val
                = Obj(SuppliedMembers(tool, args, LAMBDA k : tool.body.props[k][2], 1))

\* C25: the body of every tool that sends one is a JSON object with exactly one
\* member per body argument the handler has a defined value for (schema
\* defaults applied), in the tool's fixed order: an argument left undefined is
\* omitted, never encoded as null, and no other argument (ai_description, a
\* path argument, an extra key) is sent.  The member is named after the
\* argument, except in triggerWorkflow, where it is named {inputs}.
C25_BodyIsSuppliedBodyArguments ==
    \A s \in BodyRequests :
        LET r      == inv[s]
            tool   == Tool(r.tool)
            args   == HandlerArgs(r)
            parsed == JSONparse(r.sent[1].body[1])
        IN  /\ parsed.ok
            /\ parsed.val = Obj(SuppliedMembers(tool, args, LAMBDA k : tool.body.props[k][1], 1))
            /\ \A k \in 1..Len(tool.body.props) :
                   \/ tool.body.props[k][1] = tool.body.props[k][2]
                   \/ tool.name = "triggerWorkflow" /\ tool.body.props[k] = <<"{inputs}", "inputs">>
            /\ \A k \in 1..Len(parsed.val.v) : parsed.val.v[k][2].t # "null"
            /\ ~HasProp(parsed.val, "ai_description")
            /\ TryFetch(config, tool,
                        SchemaParse(tool, Obj(Append(r.input.v, <<"extra", Str("e")>>)),
                                    zodRelease)).request
                   = r.sent

C25_Witness ==
    /\ inv["a"].tool = "updateWorksheet"
    /\ inv["a"].pc = "fetching"
    /\ inv["a"].sent[1].body = <<"{\"name\":\"a b&c\"}">>

\* the path template of a tool, each placeholder written {name}
PathTemplate(tool) ==
    LET pieces == [i \in 1..Len(tool.path) |->
                      IF tool.path[i].arg THEN "{" \o tool.path[i].s \o "}"
                      ELSE tool.path[i].s]
    IN  Join(pieces, "")

\* the segments of a path template, without its leading slash
TemplateSegments(tool) ==
    Split(SubSeq(PathTemplate(tool), 2, Len(PathTemplate(tool))), {"/"})

\* the request of invocation r stays on its tool's endpoint: its path has the
\* segments of the tool's template, each placeholder segment holding its own
\* argument and each other segment the template's text; it has no fragment;
\* and its query has no parameter but the tool's own
OnOwnEndpoint(r) ==
    LET tool == Tool(r.tool)
        args == HandlerArgs(r)
        segs == TemplateSegments(tool)
        u    == URLparse(r.sent[1].url)
    IN  /\ u.ok
        /\ u.host = "api.mingdao.com"
        /\ Len(u.path) = Len(segs)
        /\ \A k \in 1..Len(segs) :
               u.path[k] = (IF Char(segs[k], 1) = "{"
                            THEN GetProp(args, SubSeq(segs[k], 2, Len(segs[k]) - 1)).v
                            ELSE segs[k])
        /\ u.fragment = <<>>
        /\ \A k \in 1..Len(u.searchParams) : u.searchParams[k][1] \in QueryKeys(tool)

\* C26 as stated: for every tool and every value of its path arguments the
\* request targets the tool's own endpoint: no value (one containing "/",
\* "..", "?" or "#", say) reaches another path template, adds query parameters
\* or drops the remainder of the template.
C26_EveryValueStaysOnEndpoint ==
    \A s \in DOMAIN inv : inv[s].pc = "fetching" => OnOwnEndpoint(inv[s])

\* C26: for every tool, the request targets the tool's own endpoint whenever
\* its path arguments consist of letters and digits: each fills its own
\* segment and nothing else.  The handler interpolates path arguments without
\* encoding them, so the guarantee stops there: a value with "/", "..", "?" or
\* "#" is parsed as URL syntax ("../" leaves the template, "?" starts a query,
\* "#" drops the rest of the template into the fragment).
C26_PlainValuesStayOnEndpoint ==
    \A s \in DOMAIN inv :
        LET r == inv[s]
        IN  r.pc = "fetching"
            => /\ PlainPathArgs(Tool(r.tool), HandlerArgs(r)) => OnOwnEndpoint(r)
               /\ (r.tool = "deleteRecord"
                   /\ GetProp(r.input, "worksheet_id") = Str("..")
                   /\ GetProp(r.input, "row_id") = Str("r1"))
                  => r.sent[1].url = "https://api.mingdao.com/v3/app/rows/r1"
               /\ (r.tool = "deleteWorksheet"
                   /\ GetProp(r.input, "worksheet_id") = Str("w?pageSize=9"))
                  => r.sent[1].url = "https://api.mingdao.com/v3/app/worksheets/w?pageSize=9"

C26_Witness ==
    /\ inv["a"].tool = "getRecordRelations"
    /\ inv["a"].pc = "fetching"
    /\ PlainPathArgs(getRecordRelations, inv["a"].input)
    /\ URLparse(inv["a"].sent[1].url).path
           = <<"v3", "app", "worksheets", "w1", "rows", "r1", "relations", "x1">>
    /\ URLparse(inv["a"].sent[1].url).searchParams = << <<"pageSize", "20">> >>

\* the credentials of the configuration, as text
CredentialTexts == {String(config.hapAppkey), String(config.hapSign)} \ {"", "undefined"}

\* C27: the credential values are disclosed only in the HAP-Appkey and
\* HAP-Sign headers of outbound requests: no request URL, request body or
\* Content-Type header holds one, no envelope the adapter builds holds one
\* (the remote's own payload aside), and no description the tools publish to
\* the invoking agent holds one.
C27_CredentialsOnlyInHeaders ==
    \A c \in CredentialTexts :
        /\ \A i \in 1..Len(Tools) : ~Includes(AiDescriptionHint(config, Tools[i].name), c)
        /\ \A s \in DOMAIN inv :
               LET r == inv[s]
               IN  /\ r.pc = "fetching"
                      => /\ ~Includes(r.sent[1].url, c)
                         /\ r.sent[1].body # <<>> => ~Includes(r.sent[1].body[1], c)
                         /\ ~Includes(r.sent[1].headers[1][2], c)
                   /\ (r.pc = "returned" /\ r.response = <<>>)
                      => ~Includes(ResultText(r), c)

\* the remote operation of a tool: its HTTP method and its path template
Operation(tool) == <<tool.method, PathTemplate(tool)>>

\* C28: no two registered tools share the pair (HTTP method, path template);
\* tools that share a path template differ in method (deleteWorksheet,
\* getWorksheetStructure and updateWorksheet, all three on
\* /v3/app/worksheets/{worksheet_id}, are sent with DELETE, GET and POST); and
\* the method of a tool is fixed: every request of a tool, whatever its
\* arguments, has the method of its registration, one of GET, POST, PUT, PATCH
\* and DELETE.  (The table is fixed at registration, so it is examined where
\* every invocation is idle.)
C28_DistinctOperations ==
    /\ (\A s \in DOMAIN inv : inv[s].pc = "idle")
       => /\ \A i \in 1..Len(Tools), j \in 1..Len(Tools) :
                 Operation(Tools[i]) = Operation(Tools[j]) => i = j
          /\ \A name \in {"deleteWorksheet", "getWorksheetStructure", "updateWorksheet"} :
                 PathTemplate(Tool(name)) = "/v3/app/worksheets/{worksheet_id}"
          /\ Cardinality({Tool(name).method :
                 name \in {"deleteWorksheet", "getWorksheetStructure", "updateWorksheet"}}) = 3
          /\ \A i \in 1..Len(Tools) :
                 Tools[i].method \in {"GET", "POST", "PUT", "PATCH", "DELETE"}
    /\ \A s \in DOMAIN inv :
           inv[s].pc = "fetching"
           => /\ Len(inv[s].sent) = 1
              /\ inv[s].sent[1].method = Tool(inv[s].tool).method

C28_Witness ==
    /\ inv["a"].tool = "updateWorksheet"
    /\ inv["a"].pc = "fetching"
    /\ inv["a"].sent[1].method = "POST"
    /\ inv["a"].sent[1].url = "https://api.mingdao.com/v3/app/worksheets/w1"

\* C29: the debug option has no effect on dispatch.  Of two servers whose
\* configurations differ only in debug, given the same tool and the same
\* arguments, both issue the same request (method, URL, headers, body), and
\* when the remote does the same to both they end the same way with the same
\* envelope; and every invocation on either server is where the other server
\* would have put it.
C29_DebugHasNoEffect ==
    /\ DebugConfig("a").debug # DebugConfig("b").debug
    /\ [DebugConfig("a") EXCEPT !.debug = Bool(TRUE)] = DebugConfig("b")
    /\ LET a == inv["a"]
           b == inv["b"]
       IN  (a.pc # "idle" /\ b.pc # "idle" /\ a.tool = b.tool /\ a.input = b.input)
           => /\ a.sent = b.sent
              /\ (Settled(a) /\ Settled(b) /\ RemoteOf(a) = RemoteOf(b))
                 => a.pc = b.pc /\ a.result = b.result /\ a.thrown = b.thrown
    /\ \A s \in PairSlots :
           inv[s].pc \in {"fetching", "returned", "threw"}
           => \A t \in PairSlots :
                  inv[s] \in OwnOutcomes(DebugConfig(t), zodRelease, inv[s])

C29_Witness ==
    /\ DebugConfig("b").debug = Bool(TRUE)
    /\ config.debug = Bool(FALSE)
    /\ inv["a"].tool = "deleteRecord"
    /\ inv["b"].tool = "deleteRecord"
    /\ inv["a"].input = inv["b"].input
    /\ inv["a"].pc = "returned"
    /\ inv["b"].pc = "returned"
    /\ inv["a"].response = << [status |-> 404, body |-> "{\"error_msg\":\"not found\"}"] >>
    /\ inv["b"].response = inv["a"].response
    /\ ResultText(inv["b"]) = "{\"error\":\"not found\",\"statusCode\":404}"
    /\ inv["a"].result = inv["b"].result

=============================================================================
